---- MODULE Spec2Model ----
(***************************************************************************)
(* Packout estimator: the cartage engine (cartage_calculator.py), the      *)
(* room-level box prediction (estimate.py) and the storage-vault           *)
(* derivation (pricing_engine.py), as state machines over their inputs and *)
(* results.                                                                *)
(*                                                                         *)
(* Hours are held as integers counting 1/10000 of an hour, the value that  *)
(* round(x, 4) denotes.  The unrounded hours are exact rationals           *)
(* (numerator over a fixed denominator); for integer inputs of the sizes   *)
(* used here the double-precision error of the source's arithmetic is far  *)
(* smaller than the distance of any such rational to a rounding boundary,  *)
(* except on an exact tie, where the result of round() depends on the      *)
(* binary representation error and is modelled as either neighbour.        *)
(***************************************************************************)
EXTENDS Integers, Sequences, FiniteSets, TLC

VARIABLES
    cartage_in,     \* arguments of the calculate_cartage call
    cartage_out,    \* the CartageResult it returned, or NoResult before the call
    box_in,         \* the room list passed to apply_box_prediction
    box_out,        \* the list after the call and the values computed per room
    vault_in,       \* arguments of the calculate_storage_vaults call
    vault_out,      \* the dict it returned
    pad_in,         \* argument of the _adaptive_pad_count call
    pad_out,        \* the pad count it returned and the ratio it used
    adjust_in,      \* the factor table and the arguments of EstimateAdjuster.adjust
    adjust_out,     \* the AdjustedEstimate it returned and the factors it selected
    price_in,       \* the pricing table, the item list and the pricing call made
    price_out,      \* the EstimateResult it returned
    build_in,       \* arguments of the build_5phase_estimate call
    build_out,      \* the item list it returned
    scope_in,       \* the line items and the job context passed to ScopeChecker.check
    scope_out,      \* the ScopeCheckResult it returned
    pipeline,       \* run_pipeline: its arguments, its position and its PipelineResult
    gemini,         \* analyze_video: its position, the uploaded file and its result
    main_in,        \* the room list and the options of estimate.py main
    main_out        \* the estimate main produced and the summary it printed

vars == <<cartage_in, cartage_out, box_in, box_out, vault_in, vault_out,
          pad_in, pad_out, adjust_in, adjust_out, price_in, price_out,
          build_in, build_out, scope_in, scope_out, pipeline, gemini, main_in, main_out>>

\* The value of a result variable before the call has returned.
NoResult == [status |-> "none"]

Abs(x) == IF x < 0 THEN 0 - x ELSE x
Min(a, b) == IF a < b THEN a ELSE b
Max(a, b) == IF a > b THEN a ELSE b

\* Values of the variables of the components that are not running.
CartageIdle == cartage_in = NoResult /\ cartage_out = NoResult
BoxIdle == box_in = <<>> /\ box_out = NoResult
VaultIdle == vault_in = NoResult /\ vault_out = NoResult
PadIdle == pad_in = NoResult /\ pad_out = NoResult
AdjustIdle == adjust_in = NoResult /\ adjust_out = NoResult
PriceIdle == price_in = NoResult /\ price_out = NoResult
BuildIdle == build_in = NoResult /\ build_out = NoResult
ScopeIdle == scope_in = NoResult /\ scope_out = NoResult
PipelineIdle == pipeline = NoResult
GeminiIdle == gemini = NoResult
MainIdle == main_in = NoResult /\ main_out = NoResult

(* ------------------------------------------------------------------ *)
(* Bounds of the cartage inputs                                         *)
(* ------------------------------------------------------------------ *)
MaxDrive == 2
MaxLoads == 2
MaxCrew == 3
MaxNegCrew == 1
MaxCarry == 1
MaxTags == 3
MaxBoxes == 3

(* ------------------------------------------------------------------ *)
(* cartage_calculator.py                                                *)
(* ------------------------------------------------------------------ *)

\* FactoryStandards(): the default time standards, in minutes.
FactoryStandards ==
    [pad_wrap_tag |-> 8, load_tag |-> 3, unload_tag |-> 3, move_tag_to_storage |-> 5,
     load_3box |-> 3, unload_3box |-> 2, move_3box_to_storage |-> 6]

\* FactoryStandards(move_tag_to_storage=0), the override of the Harmon tests.
HarmonStandards == [FactoryStandards EXCEPT !.move_tag_to_storage = 0]

\* standards=None, the default of the parameter.
NoStandards == [status |-> "None"]

\* The calls made by the validation tests of cartage_calculator.py.
CartageTestInputs ==
    { [drive_time_min |-> 33, truck_loads |-> 4, crew_size |-> 8, carry_time_min |-> 10,
       tag_count |-> 165, box_count |-> 200, standards |-> NoStandards],
      [drive_time_min |-> 48, truck_loads |-> 1, crew_size |-> 8, carry_time_min |-> 7,
       tag_count |-> 100, box_count |-> 100, standards |-> HarmonStandards],
      [drive_time_min |-> 48, truck_loads |-> 1, crew_size |-> 3, carry_time_min |-> 5,
       tag_count |-> 59, box_count |-> 15, standards |-> HarmonStandards] }

\* The arguments a caller can pass: nothing in calculate_cartage restricts them.
CartageInputs ==
    [drive_time_min : 0..MaxDrive, truck_loads : 0..MaxLoads,
     crew_size : (0 - MaxNegCrew)..MaxCrew, carry_time_min : 0..MaxCarry,
     tag_count : 0..MaxTags, box_count : 0..MaxBoxes,
     standards : {NoStandards, HarmonStandards}]
    \cup CartageTestInputs

\* round(): the integers nearest to num/den (den > 0); both neighbours on a tie.
RoundSet(num, den) ==
    LET q == num \div den
        r == num % den
    IN  IF 2 * r < den THEN {q}
        ELSE IF 2 * r > den THEN {q + 1}
        ELSE {q, q + 1}

\* The number of 1/10000 hours in one hour: round(x, 4).
Scale4 == 10000
\* The number of 1/100 minutes in one minute: round(x, 2).
Scale2 == 100

\* if standards is None: standards = FactoryStandards()
standards_of(inp) ==
    IF inp.standards = NoStandards THEN FactoryStandards ELSE inp.standards

minutes_per_tag_no_move(inp) ==
    standards_of(inp).pad_wrap_tag + standards_of(inp).load_tag
    + standards_of(inp).unload_tag + inp.carry_time_min

minutes_per_tag(inp) ==
    standards_of(inp).pad_wrap_tag + standards_of(inp).load_tag
    + standards_of(inp).unload_tag + standards_of(inp).move_tag_to_storage
    + inp.carry_time_min

minutes_per_3box(inp) ==
    standards_of(inp).load_3box + standards_of(inp).unload_3box
    + standards_of(inp).move_3box_to_storage + inp.carry_time_min

\* Unrounded hours as numerators over HoursDen = 60 * 3.
HoursDen == 180
tag_hours_num(inp) == 3 * (minutes_per_tag(inp) * inp.tag_count)
box_hours_num(inp) == minutes_per_3box(inp) * inp.box_count
crew_hours_num(inp) == 3 * ((inp.drive_time_min * 2) * inp.crew_size * inp.truck_loads)
total_hours_num_no_crew(inp) == tag_hours_num(inp) + box_hours_num(inp)
total_hours_num(inp) == tag_hours_num(inp) + box_hours_num(inp) + crew_hours_num(inp)

\* The split into CPS LAB / CPS LABS, as <<numerator, denominator>> of hours.
cps_labs_hours_frac(inp) ==
    IF inp.crew_size > 0 THEN <<total_hours_num(inp), HoursDen * inp.crew_size>>
    ELSE <<0, HoursDen>>
cps_lab_hours_frac_all(inp) == <<total_hours_num(inp), HoursDen>>
cps_lab_hours_frac(inp) ==
    IF inp.crew_size > 0
    THEN <<total_hours_num(inp) * inp.crew_size - total_hours_num(inp),
           HoursDen * inp.crew_size>>
    ELSE <<total_hours_num(inp), HoursDen>>

\* calculate_cartage: the CartageResults the call can return.
calculate_cartage(inp) ==
    { [tag_hours |-> th, box_hours |-> bh, crew_hours |-> ch, total_hours |-> tot,
       cps_lab_hours |-> lab, cps_labs_hours |-> labs,
       minutes_per_tag |-> mpt, minutes_per_box |-> mpb,
       drive_time_min |-> inp.drive_time_min, truck_loads |-> inp.truck_loads,
       crew_size |-> inp.crew_size, carry_time_min |-> inp.carry_time_min,
       tag_count |-> inp.tag_count, box_count |-> inp.box_count] :
      th \in RoundSet(Scale4 * tag_hours_num(inp), HoursDen),
      bh \in RoundSet(Scale4 * box_hours_num(inp), HoursDen),
      ch \in RoundSet(Scale4 * crew_hours_num(inp), HoursDen),
      tot \in RoundSet(Scale4 * total_hours_num(inp), HoursDen),
      lab \in RoundSet(Scale4 * cps_lab_hours_frac(inp)[1], cps_lab_hours_frac(inp)[2]),
      labs \in RoundSet(Scale4 * cps_labs_hours_frac(inp)[1], cps_labs_hours_frac(inp)[2]),
      mpt \in RoundSet(Scale2 * minutes_per_tag(inp), 1),
      mpb \in RoundSet(Scale2 * minutes_per_3box(inp), 3) }

InitCartage ==
    /\ cartage_in \in CartageInputs
    /\ cartage_out = NoResult
    /\ BoxIdle /\ VaultIdle /\ PadIdle /\ AdjustIdle /\ PriceIdle /\ BuildIdle
    /\ ScopeIdle /\ PipelineIdle /\ GeminiIdle /\ MainIdle

\* A caller invokes calculate_cartage(cartage_in) and keeps what it returns.
CallCalculateCartage ==
    /\ cartage_out = NoResult
    /\ cartage_out' \in calculate_cartage(cartage_in)
    /\ UNCHANGED <<cartage_in, box_in, box_out, vault_in, vault_out,
                   pad_in, pad_out, adjust_in, adjust_out, price_in, price_out,
                   build_in, build_out,
                   scope_in, scope_out, pipeline, gemini, main_in, main_out>>

NextCartage == CallCalculateCartage

SpecCartage == InitCartage /\ [][NextCartage]_vars

(* ------------------------------------------------------------------ *)
(* estimate.py: box prediction                                          *)
(* ------------------------------------------------------------------ *)

\* Bounds of the room lists.
MaxRooms == 2
MaxRoomTags == 3
MaxRoomBoxes == 8

\* A Python dict is a function; d.get(k, default).
EmptyDict == [k \in {} |-> 0]
DictGet(d, k, default) == IF k \in DOMAIN d THEN d[k] ELSE default
\* d.get(k, 0) or 0, with an absent key read as 0.
GetCount(d, k) == DictGet(d, k, 0)
\* d[k] = v
DictSet(d, k, v) == [x \in (DOMAIN d) \cup {k} |-> IF x = k THEN v ELSE d[x]]

\* Room names are sequences of characters.  str.lower(), character by character:
UpperToLower ==
    [A |-> "a", B |-> "b", C |-> "c", D |-> "d", E |-> "e", F |-> "f", G |-> "g",
     H |-> "h", I |-> "i", J |-> "j", K |-> "k", L |-> "l", M |-> "m", N |-> "n",
     O |-> "o", P |-> "p", Q |-> "q", R |-> "r", S |-> "s", T |-> "t", U |-> "u",
     V |-> "v", W |-> "w", X |-> "x", Y |-> "y", Z |-> "z"]
LowerChar(c) == IF c \in DOMAIN UpperToLower THEN UpperToLower[c] ELSE c
Lower(s) == [i \in 1..Len(s) |-> LowerChar(s[i])]

\* pat in s, for strings.
Contains(s, pat) ==
    \E i \in 1..(Len(s) - Len(pat) + 1) : SubSeq(s, i, i + Len(pat) - 1) = pat


DENSITY_TIERS == <<"light", "medium", "heavy", "very_heavy">>

CLOSET_ALLOCATION ==
    [bedroom_primary |-> [light |-> 5, medium |-> 15, heavy |-> 25, very_heavy |-> 35],
     bedroom |-> [light |-> 3, medium |-> 8, heavy |-> 15, very_heavy |-> 22],
     bedroom_guest |-> [light |-> 3, medium |-> 6, heavy |-> 12, very_heavy |-> 18],
     bedroom_kids |-> [light |-> 3, medium |-> 10, heavy |-> 18, very_heavy |-> 28]]

PANTRY_ALLOCATION == [light |-> 2, medium |-> 5, heavy |-> 10, very_heavy |-> 15]

PHOTO_RELIABLE_CATEGORIES ==
    {"living_room", "dining_room", "hallway", "exterior", "laundry"}

HIDDEN_CONTENT_CATEGORIES ==
    {"bedroom", "bedroom_primary", "bedroom_guest", "bedroom_kids",
     "kitchen", "office", "bathroom", "closet", "garage", "basement"}

\* room_scope_lookup.json's room_types, as build_visual_training.py writes them.
Baseline(t1, t2, t3, b1, b2, b3) ==
    [typical_tags |-> [light |-> t1, medium |-> t2, heavy |-> t3],
     typical_boxes |-> [light |-> b1, medium |-> b2, heavy |-> b3]]

_load_baselines ==
    [kitchen |-> Baseline(3, 6, 10, 5, 12, 25),
     living_room |-> Baseline(4, 8, 15, 3, 8, 15),
     dining_room |-> Baseline(3, 6, 10, 2, 5, 10),
     bedroom |-> Baseline(4, 7, 12, 4, 10, 20),
     bathroom |-> Baseline(0, 1, 3, 1, 3, 6),
     closet |-> Baseline(1, 3, 5, 3, 8, 20),
     office |-> Baseline(3, 5, 8, 5, 12, 25),
     garage |-> Baseline(5, 15, 30, 5, 15, 30),
     laundry |-> Baseline(0, 1, 3, 1, 3, 6),
     hallway |-> Baseline(1, 3, 5, 1, 3, 5),
     exterior |-> Baseline(0, 2, 5, 0, 1, 3),
     basement |-> Baseline(5, 12, 25, 5, 15, 35),
     other |-> Baseline(2, 5, 10, 3, 8, 15)]

_bump_density(density) ==
    LET idx == IF \E i \in 1..Len(DENSITY_TIERS) : DENSITY_TIERS[i] = density
               THEN CHOOSE i \in 1..Len(DENSITY_TIERS) : DENSITY_TIERS[i] = density
               ELSE 2
    IN  DENSITY_TIERS[Min(idx + 1, Len(DENSITY_TIERS))]

_lookup_boxes(baselines, room_category, density) ==
    LET room_data == DictGet(baselines, room_category, DictGet(baselines, "other", EmptyDict))
    IN  DictGet(DictGet(room_data, "typical_boxes", EmptyDict), density, 6)

_lookup_tags(baselines, room_category, density) ==
    LET room_data == DictGet(baselines, room_category, DictGet(baselines, "other", EmptyDict))
    IN  DictGet(DictGet(room_data, "typical_tags", EmptyDict), density, 5)

RECURSIVE SumOver(_, _)
\* sum(f[i] for i in 1..n)
SumOver(f, n) == IF n = 0 THEN 0 ELSE f[n] + SumOver(f, n - 1)

\* The room kinds of the model: a name and its category.  "attic" is a category the
\* baseline table does not know.
RoomKinds ==
    { <<<<"M", "a", "s", "t", "e", "r", " ", "B", "e", "d", "r", "o", "o", "m">>,
        "bedroom">>,
      <<<<"B", "e", "d", "r", "o", "o", "m", " ", "2">>,
        "bedroom">>,
      <<<<"P", "r", "i", "m", "a", "r", "y", " ", "S", "u", "i", "t", "e">>,
        "bedroom_primary">>,
      <<<<"G", "u", "e", "s", "t", " ", "R", "o", "o", "m">>,
        "bedroom_guest">>,
      <<<<"K", "i", "t", "c", "h", "e", "n">>,
        "kitchen">>,
      <<<<"H", "a", "l", "l", " ", "C", "l", "o", "s", "e", "t">>,
        "closet">>,
      <<<<"L", "i", "v", "i", "n", "g", " ", "R", "o", "o", "m">>,
        "living_room">>,
      <<<<"A", "t", "t", "i", "c">>,
        "attic">>,
      <<<<"W", "a", "l", "k", "-", "i", "n", " ", "P", "a", "n", "t", "r", "y">>,
        "other">> }

Room(name, cat, den, tags) ==
    [room_name |-> name, room_category |-> cat, density |-> den, override_tags |-> tags]

\* The first room of a list: any kind, any tier, with or without a visual box count.
FirstRooms ==
    { Room(k[1], k[2], d, t) :
        k \in RoomKinds, d \in {"light", "medium", "heavy", "very_heavy"},
        t \in 0..MaxRoomTags }
    \cup
    { DictSet(Room(k[1], k[2], d, t), "override_boxes", b) :
        k \in RoomKinds, d \in {"light", "medium", "heavy", "very_heavy"},
        t \in 0..MaxRoomTags, b \in 0..MaxRoomBoxes }

\* The rooms that follow it: an explicit closet, an explicit pantry with many TAGs,
\* a living room full of furniture, and a room without density or box count.
OtherRooms ==
    { DictSet(Room(<<"H", "a", "l", "l", " ", "C", "l", "o", "s", "e", "t">>,
                   "closet", "light", 0), "override_boxes", 1),
      Room(<<"W", "a", "l", "k", "-", "i", "n", " ", "P", "a", "n", "t", "r", "y">>,
           "other", "light", 12),
      DictSet(Room(<<"L", "i", "v", "i", "n", "g", " ", "R", "o", "o", "m">>,
                   "living_room", "medium", 20), "override_boxes", 2),
      [room_name |-> <<"B", "e", "d", "r", "o", "o", "m", " ", "2">>,
       room_category |-> "bedroom", override_tags |-> 4] }

RECURSIVE RoomListsOfLen(_)
RoomListsOfLen(n) ==
    IF n = 1 THEN { <<r>> : r \in FirstRooms }
    ELSE { Append(l, r) : l \in RoomListsOfLen(n - 1), r \in OtherRooms }


\* total_tags = sum(r.get('override_tags', 0) or 0 for r in rooms)
total_tags(rooms) ==
    SumOver([i \in 1..Len(rooms) |-> GetCount(rooms[i], "override_tags")], Len(rooms))

has_explicit_closets(rooms) ==
    \E i \in 1..Len(rooms) : DictGet(rooms[i], "room_category", "other") = "closet"

has_explicit_pantry(rooms) ==
    \E i \in 1..Len(rooms) : Contains(Lower(DictGet(rooms[i], "room_name", <<>>)), <<"p", "a", "n", "t", "r", "y">>)

baseline_tags_sum(rooms) ==
    SumOver([i \in 1..Len(rooms) |->
                _lookup_tags(_load_baselines, DictGet(rooms[i], "room_category", "other"),
                             DictGet(rooms[i], "density", "medium"))],
            Len(rooms))

\* tag_ratio = total_tags / max(baseline_tags_sum, 1), compared with 1.5 and 1.75.
density_bumped_above_one(rooms) == total_tags(rooms) > Max(baseline_tags_sum(rooms), 1)
density_bumped(rooms) == 2 * total_tags(rooms) > 3 * Max(baseline_tags_sum(rooms), 1)
closet_boosted(rooms) == 4 * total_tags(rooms) > 7 * Max(baseline_tags_sum(rooms), 1)

effective_density(room, rooms) ==
    IF density_bumped(rooms) THEN _bump_density(DictGet(room, "density", "medium"))
    ELSE DictGet(room, "density", "medium")

\* lookup_boxes, after the deduction of the closet portion of a bedroom when the
\* list holds explicit closets.
lookup_boxes(room, rooms) ==
    LET room_cat == DictGet(room, "room_category", "other")
        eff == effective_density(room, rooms)
        plain == _lookup_boxes(_load_baselines, room_cat, eff)
    IN  IF has_explicit_closets(rooms) /\ room_cat \in DOMAIN CLOSET_ALLOCATION
        THEN Max(plain - (DictGet(CLOSET_ALLOCATION[room_cat], eff, 0) \div 2), 0)
        ELSE plain

closet_cat(room) ==
    LET room_cat == DictGet(room, "room_category", "other")
        name_lower == Lower(DictGet(room, "room_name", <<"?">>))
    IN  IF room_cat = "bedroom"
           /\ \E kw \in { <<"m", "a", "s", "t", "e", "r">>,
                          <<"p", "r", "i", "m", "a", "r", "y">>,
                          <<"m", "a", "i", "n", " ", "b", "e", "d">> } :
                 Contains(name_lower, kw)
        THEN "bedroom_primary" ELSE room_cat

\* The closet allocation read at the effective density whatever the ratio.
closet_density_not_boosted(room, rooms) == effective_density(room, rooms)

\* The density tier the closet allocation is read at.
closet_density(room, rooms) ==
    IF closet_boosted(rooms) THEN _bump_density(effective_density(room, rooms))
    ELSE effective_density(room, rooms)

closet_bonus_always(room, rooms) ==
    IF DictGet(room, "room_category", "other") \in DOMAIN CLOSET_ALLOCATION
    THEN DictGet(CLOSET_ALLOCATION[closet_cat(room)], closet_density(room, rooms), 6)
    ELSE 0
closet_bonus(room, rooms) ==
    IF DictGet(room, "room_category", "other") \in DOMAIN CLOSET_ALLOCATION
       /\ ~has_explicit_closets(rooms)
    THEN DictGet(CLOSET_ALLOCATION[closet_cat(room)], closet_density(room, rooms), 6)
    ELSE 0

pantry_bonus(room, rooms) ==
    IF DictGet(room, "room_category", "other") = "kitchen" /\ ~has_explicit_pantry(rooms)
    THEN DictGet(PANTRY_ALLOCATION, effective_density(room, rooms), 5)
    ELSE 0

predicted(room, rooms) ==
    lookup_boxes(room, rooms) + closet_bonus(room, rooms) + pantry_bonus(room, rooms)

\* The decision with the 40% rule for the hidden-content categories too.
should_upgrade_hidden_at_forty(room, rooms) ==
    LET room_cat == DictGet(room, "room_category", "other")
        photo_boxes == GetCount(room, "override_boxes")
    IN  IF room_cat \in PHOTO_RELIABLE_CATEGORIES
        THEN \/ density_bumped(rooms) /\ 5 * photo_boxes < 2 * lookup_boxes(room, rooms)
             \/ photo_boxes = 0 /\ predicted(room, rooms) > 0
        ELSE 5 * photo_boxes < 2 * predicted(room, rooms)

\* photo_boxes < predicted * 0.5 is 2 * photo_boxes < predicted, and
\* photo_boxes < x * 0.4 is 5 * photo_boxes < 2 * x, for the integers of a room.
should_upgrade(room, rooms) ==
    LET room_cat == DictGet(room, "room_category", "other")
        photo_boxes == GetCount(room, "override_boxes")
    IN  IF room_cat \in HIDDEN_CONTENT_CATEGORIES
        THEN 2 * photo_boxes < predicted(room, rooms)
        ELSE IF room_cat \in PHOTO_RELIABLE_CATEGORIES
        THEN \/ density_bumped(rooms) /\ 5 * photo_boxes < 2 * lookup_boxes(room, rooms)
             \/ photo_boxes = 0 /\ predicted(room, rooms) > 0
        ELSE 5 * photo_boxes < 2 * predicted(room, rooms)

\* The room after the upgrade decision: override_boxes is assigned, or left alone.
updated_room_always_predicted(room, rooms) ==
    DictSet(room, "override_boxes", predicted(room, rooms))
updated_room_no_bonus_branch(room, rooms) ==
    IF should_upgrade(room, rooms)
       /\ predicted(room, rooms) > GetCount(room, "override_boxes")
    THEN DictSet(room, "override_boxes", predicted(room, rooms))
    ELSE room
updated_room(room, rooms) ==
    LET photo_boxes == GetCount(room, "override_boxes")
        bonus_only == closet_bonus(room, rooms) + pantry_bonus(room, rooms)
    IN  IF ~should_upgrade(room, rooms) /\ bonus_only > 0
           /\ photo_boxes + bonus_only > photo_boxes
        THEN DictSet(room, "override_boxes", photo_boxes + bonus_only)
        ELSE IF should_upgrade(room, rooms) /\ predicted(room, rooms) > photo_boxes
        THEN DictSet(room, "override_boxes", predicted(room, rooms))
        ELSE room

\* The values the loop computes for one room.
room_locals(room, rooms) ==
    [effective_density |-> effective_density(room, rooms),
     lookup_boxes |-> lookup_boxes(room, rooms),
     closet_density |-> closet_density(room, rooms),
     closet_bonus |-> closet_bonus(room, rooms),
     pantry_bonus |-> pantry_bonus(room, rooms),
     predicted |-> predicted(room, rooms),
     should_upgrade |-> should_upgrade(room, rooms)]

\* apply_box_prediction: the list after the call (the rooms are updated in place),
\* and the per-room values of the loop; no loop runs when there are no TAGs.
apply_box_prediction(rooms) ==
    IF total_tags(rooms) = 0
    THEN [rooms |-> rooms, predicted_rooms |-> FALSE, locals |-> <<>>]
    ELSE [rooms |-> [i \in 1..Len(rooms) |-> updated_room(rooms[i], rooms)],
          predicted_rooms |-> TRUE,
          locals |-> [i \in 1..Len(rooms) |-> room_locals(rooms[i], rooms)]]

InitBox ==
    /\ box_in \in {<<>>} \cup UNION { RoomListsOfLen(n) : n \in 1..MaxRooms }
    /\ box_out = NoResult
    /\ CartageIdle /\ VaultIdle /\ PadIdle /\ AdjustIdle /\ PriceIdle /\ BuildIdle
    /\ ScopeIdle /\ PipelineIdle /\ GeminiIdle /\ MainIdle

\* main() calls apply_box_prediction(rooms) on the normalized room list.
CallApplyBoxPrediction ==
    /\ box_out = NoResult
    /\ box_out' = apply_box_prediction(box_in)
    /\ UNCHANGED <<box_in, cartage_in, cartage_out, vault_in, vault_out,
                   pad_in, pad_out, adjust_in, adjust_out, price_in, price_out,
                   build_in, build_out,
                   scope_in, scope_out, pipeline, gemini, main_in, main_out>>

NextBox == CallApplyBoxPrediction

SpecBox == InitBox /\ [][NextBox]_vars

(* ------------------------------------------------------------------ *)
(* pricing_engine.py: storage vaults                                    *)
(* ------------------------------------------------------------------ *)

\* Bounds of the counts.
MaxVaultTags == 45
MaxVaultBoxes == 125

\* math.ceil(n / d) for n > 0, d > 0.
Ceil(n, d) == (n + d - 1) \div d

BoxesPerVault == 60
TagsPerVault == 20
ItemsPerVault == 50

box_vaults(tag_count, box_count) ==
    IF box_count > 0 THEN Ceil(box_count, BoxesPerVault) ELSE 0
tag_vaults(tag_count, box_count) ==
    IF tag_count > 0 THEN Ceil(tag_count, TagsPerVault) ELSE 0
component_total(tag_count, box_count) ==
    box_vaults(tag_count, box_count) + tag_vaults(tag_count, box_count)
capacity_total(tag_count, box_count) ==
    IF tag_count + box_count > 0 THEN Ceil(tag_count + box_count, ItemsPerVault) ELSE 0

vault_total_higher(tag_count, box_count) ==
    Max(1, Max(component_total(tag_count, box_count), capacity_total(tag_count, box_count)))
vault_total(tag_count, box_count) ==
    Max(1, Min(component_total(tag_count, box_count), capacity_total(tag_count, box_count)))

vault_method_strict(tag_count, box_count) ==
    IF component_total(tag_count, box_count) < capacity_total(tag_count, box_count)
    THEN "component" ELSE "capacity"
vault_method(tag_count, box_count) ==
    IF component_total(tag_count, box_count) <= capacity_total(tag_count, box_count)
    THEN "component" ELSE "capacity"

calculate_storage_vaults(tag_count, box_count) ==
    [total |-> vault_total(tag_count, box_count),
     box_vaults |-> box_vaults(tag_count, box_count),
     tag_vaults |-> tag_vaults(tag_count, box_count),
     capacity_vaults |-> capacity_total(tag_count, box_count),
     method |-> vault_method(tag_count, box_count)]

InitVault ==
    /\ vault_in \in [tag_count : 0..MaxVaultTags, box_count : 0..MaxVaultBoxes]
    /\ vault_out = NoResult
    /\ CartageIdle /\ BoxIdle /\ PadIdle /\ AdjustIdle /\ PriceIdle /\ BuildIdle
    /\ ScopeIdle /\ PipelineIdle /\ GeminiIdle /\ MainIdle

\* build_5phase_estimate / generate_5phase_estimate derive the vaults from the counts.
CallCalculateStorageVaults ==
    /\ vault_out = NoResult
    /\ vault_out' = calculate_storage_vaults(vault_in.tag_count, vault_in.box_count)
    /\ UNCHANGED <<vault_in, cartage_in, cartage_out, box_in, box_out,
                   pad_in, pad_out, adjust_in, adjust_out, price_in, price_out,
                   build_in, build_out,
                   scope_in, scope_out, pipeline, gemini, main_in, main_out>>

NextVault == CallCalculateStorageVaults

SpecVault == InitVault /\ [][NextVault]_vars

(* ------------------------------------------------------------------ *)
(* pricing_engine.py: _adaptive_pad_count                               *)
(* ------------------------------------------------------------------ *)
MaxPadTags == 250
MaxNegPadTags == 2

\* The pads-per-TAG ratio is held as a numerator over RatioDen = 53 * 1000:
\* the anchors are given in thousandths and lie 84 - 31 = 53 TAGs apart.
RatioDen == 53000

\* The ratio with the upper anchor left out: the line through the two anchors
\* continued above 84 TAGs.
pad_ratio_extrapolated(tag_count) ==
    LET ratio == IF tag_count <= 31
                 THEN 645 * 53
                 ELSE 645 * 53 + (tag_count - 31) * (1226 - 645)
    IN  Min(ratio, 1250 * 53)

\* ratio of _adaptive_pad_count for tag_count > 0, after min(ratio, 1.25).
pad_ratio(tag_count) ==
    LET ratio == IF tag_count <= 31
                 THEN 645 * 53
                 ELSE IF tag_count >= 84
                      THEN 1226 * 53
                      ELSE 645 * 53 + (tag_count - 31) * (1226 - 645)
    IN  Min(ratio, 1250 * 53)

\* _adaptive_pad_count(tag_count): the possible results with the ratio used
\* (ratio 0 stands for the early return, which computes no ratio).
_adaptive_pad_count(tag_count) ==
    IF tag_count <= 0
    THEN {[status |-> "returned", ratio |-> 0, count |-> 1]}
    ELSE {[status |-> "returned", ratio |-> pad_ratio(tag_count), count |-> Max(1, c)] :
             c \in RoundSet(tag_count * pad_ratio(tag_count), RatioDen)}

InitPad ==
    /\ pad_in \in [tag_count : (0 - MaxNegPadTags)..MaxPadTags]
    /\ pad_out = NoResult
    /\ CartageIdle /\ BoxIdle /\ VaultIdle /\ AdjustIdle /\ PriceIdle /\ BuildIdle
    /\ ScopeIdle /\ PipelineIdle /\ GeminiIdle /\ MainIdle

\* build_5phase_estimate calls it when no pad_count is given.
CallAdaptivePadCount ==
    /\ pad_out = NoResult
    /\ pad_out' \in _adaptive_pad_count(pad_in.tag_count)
    /\ UNCHANGED <<pad_in, cartage_in, cartage_out, box_in, box_out, vault_in, vault_out,
                   adjust_in, adjust_out, price_in, price_out, build_in, build_out,
                   scope_in, scope_out, pipeline, gemini, main_in, main_out>>

NextPad == CallAdaptivePadCount

SpecPad == InitPad /\ [][NextPad]_vars

(* ------------------------------------------------------------------ *)
(* estimate_adjuster.py                                                 *)
(* ------------------------------------------------------------------ *)
\* Multipliers and standard deviations are held in thousandths (1234 is 1.234),
\* confidences in hundredths.  A raw value is an integer number of the units its
\* result is rounded to: TAGs and boxes (round(x)), tenths of an hour
\* (round(x, 1)) and cents (round(x, 2)).
MaxSamples == 3
MaxRaw == 3
MaxNegRaw == 1

\* The statistics of one subset of the history; the 'std' key may be absent.
SubsetStats(medians, stds) ==
    [median : medians, std : stds, n : 0..MaxSamples] \cup [median : medians, n : 0..MaxSamples]

\* The entries of one metric: each of 'post_acquisition', 'all_estimates' and
\* 'confidence' may be absent, and the recent-era jobs are among all the jobs.
FactorDatas ==
    LET posts == SubsetStats({400, 1234}, {150})
        alls  == SubsetStats({900, 1500}, {200})
        both  == {[post_acquisition |-> p, all_estimates |-> a] :
                      <<p, a>> \in {pa \in posts \X alls : pa[1].n <= pa[2].n}}
        parts == both \cup {[all_estimates |-> a] : a \in alls}
                      \cup {[post_acquisition |-> p] : p \in {q \in posts : q.n = 0}}
                      \cup {EmptyDict}
    IN  parts \cup {DictSet(d, "confidence", 80) : d \in parts}

\* A table with an entry for three of the four metrics; 'labor_multiplier' is absent.
ContextFactors ==
    [tag_multiplier |->
         [confidence |-> 85,
          all_estimates |-> [median |-> 1050, std |-> 250, n |-> 8],
          post_acquisition |-> [median |-> 1120, std |-> 180, n |-> 5]],
     box_multiplier |->
         [confidence |-> 60,
          all_estimates |-> [median |-> 1300, std |-> 400, n |-> 8],
          post_acquisition |-> [median |-> 1250, std |-> 350, n |-> 2]],
     rcv_multiplier |->
         [all_estimates |-> [median |-> 1180, std |-> 220, n |-> 8]],
     commonly_added_items |->
         <<[desc |-> "Wardrobe box", frequency |-> 4], [desc |-> "Mirror box", frequency |-> 3],
           [desc |-> "Dish pack", frequency |-> 2], [desc |-> "Mattress bag", frequency |-> 1]>>]

\* The raw values of the run in the module's __main__, RCV scaled to 150.00.
ContextRaw == [tags |-> 100, boxes |-> 150, labor_hours |-> 600, rcv |-> 15000]

MetricOf ==
    [tag_multiplier |-> "tags", box_multiplier |-> "boxes",
     labor_multiplier |-> "labor_hours", rcv_multiplier |-> "rcv"]

\* The calls of the model: one metric's entry and raw value vary, the others
\* are those of the context; a table that varies the TAG entry has no
\* 'commonly_added_items'.
AdjustInputs ==
    {[factors |-> IF name = "tag_multiplier"
                  THEN [k \in {"tag_multiplier", "box_multiplier", "rcv_multiplier"} |->
                            IF k = name THEN d ELSE ContextFactors[k]]
                  ELSE DictSet(ContextFactors, name, d),
      raw |-> [ContextRaw EXCEPT ![MetricOf[name]] = v],
      is_post_acquisition |-> post] :
        name \in DOMAIN MetricOf, d \in FactorDatas,
        v \in (0 - MaxNegRaw)..MaxRaw, post \in BOOLEAN}

\* _get_factor without its first branch: the all-data statistics whatever the
\* recent-era sample count.
_get_factor_no_post(factors, factor_name, use_post_acq) ==
    LET factor_data == DictGet(factors, factor_name, EmptyDict)
        all == DictGet(factor_data, "all_estimates", EmptyDict)
    IN  IF DictGet(all, "n", 0) > 0
        THEN [value |-> all.median, std |-> DictGet(all, "std", 300),
              confidence |-> DictGet(factor_data, "confidence", 60)]
        ELSE [value |-> 1000, std |-> 300, confidence |-> 50]

\* EstimateAdjuster._get_factor
_get_factor(factors, factor_name, use_post_acq) ==
    LET factor_data == DictGet(factors, factor_name, EmptyDict)
        post == DictGet(factor_data, "post_acquisition", EmptyDict)
        all == DictGet(factor_data, "all_estimates", EmptyDict)
    IN  IF use_post_acq /\ DictGet(post, "n", 0) >= 3
        THEN [value |-> post.median, std |-> DictGet(post, "std", 300),
              confidence |-> DictGet(factor_data, "confidence", 70)]
        ELSE IF DictGet(all, "n", 0) > 0
        THEN [value |-> all.median, std |-> DictGet(all, "std", 300),
              confidence |-> DictGet(factor_data, "confidence", 60)]
        ELSE [value |-> 1000, std |-> 300, confidence |-> 50]

\* round(raw * factor['value'], digits), in the units of raw.
adjusted_value(raw, factor) == RoundSet(raw * factor.value, 1000)

\* The low band without the 0.5 floor of the multiplier.
low_value_no_half(raw, factor, default_std) ==
    LET std == DictGet(factor, "std", default_std)
    IN  {Max(0, x) : x \in RoundSet(raw * (factor.value - std), 1000)}

\* max(0, round(raw * max(0.5, factor['value'] - std), digits))
low_value(raw, factor, default_std) ==
    LET std == DictGet(factor, "std", default_std)
    IN  {Max(0, x) : x \in RoundSet(raw * Max(500, factor.value - std), 1000)}

\* round(raw * (factor['value'] + std), digits)
high_value(raw, factor, default_std) ==
    LET std == DictGet(factor, "std", default_std)
    IN  RoundSet(raw * (factor.value + std), 1000)

\* The note on one factor: its value above 1.05 or below 0.95, with the percentage
\* formatted to a whole number.
factor_note(label, factor) ==
    IF factor.value > 1050
    THEN {<<[kind |-> "increase", metric |-> label, pct |-> p]>> :
              p \in RoundSet(factor.value - 1000, 10)}
    ELSE IF factor.value < 950
    THEN {<<[kind |-> "decrease", metric |-> label, pct |-> p]>> :
              p \in RoundSet(1000 - factor.value, 10)}
    ELSE {<<>>}

\* The note on the three most commonly added items (their descriptions here
\* have fewer than 50 characters).
commonly_added_note(factors) ==
    LET commonly_added == DictGet(factors, "commonly_added_items", <<>>)
    IN  IF commonly_added # <<>>
        THEN <<[kind |-> "commonly_added",
                items |-> [i \in 1..Min(3, Len(commonly_added)) |-> commonly_added[i].desc]]>>
        ELSE <<>>

\* EstimateAdjuster.adjust: the AdjustedEstimate objects it can return, with the
\* factors it selected.
adjust(factors, raw, is_post_acquisition) ==
    LET tag_factor == _get_factor(factors, "tag_multiplier", is_post_acquisition)
        box_factor == _get_factor(factors, "box_multiplier", is_post_acquisition)
        labor_factor == _get_factor(factors, "labor_multiplier", is_post_acquisition)
        rcv_factor == _get_factor(factors, "rcv_multiplier", is_post_acquisition)
        Values(v, factor, default_std) ==
            {[raw |-> v, adjusted |-> a, low |-> l, high |-> h] :
                 a \in adjusted_value(v, factor),
                 l \in low_value(v, factor, default_std),
                 h \in high_value(v, factor, default_std)}
    IN  {[status |-> "returned",
          tags |-> t, boxes |-> b, labor_hours |-> lh, rcv |-> r,
          confidence |-> Min(tag_factor.confidence, box_factor.confidence),
          adjustment_notes |-> tn \o bn \o commonly_added_note(factors),
          factors |-> [tags |-> tag_factor, boxes |-> box_factor,
                       labor_hours |-> labor_factor, rcv |-> rcv_factor]] :
             t \in Values(raw.tags, tag_factor, 300),
             b \in Values(raw.boxes, box_factor, 300),
             lh \in Values(raw.labor_hours, labor_factor, 200),
             r \in Values(raw.rcv, rcv_factor, 300),
             tn \in factor_note("TAGs", tag_factor),
             bn \in factor_note("Boxes", box_factor)}

InitAdjust ==
    /\ adjust_in \in AdjustInputs
    /\ adjust_out = NoResult
    /\ CartageIdle /\ BoxIdle /\ VaultIdle /\ PadIdle /\ PriceIdle /\ BuildIdle
    /\ ScopeIdle /\ PipelineIdle /\ GeminiIdle /\ MainIdle

\* generate_estimate.py and run_backtest.py call adjuster.adjust on the raw totals.
CallAdjust ==
    /\ adjust_out = NoResult
    /\ adjust_out' \in adjust(adjust_in.factors, adjust_in.raw, adjust_in.is_post_acquisition)
    /\ UNCHANGED <<adjust_in, cartage_in, cartage_out, box_in, box_out, vault_in, vault_out,
                   pad_in, pad_out, price_in, price_out, build_in, build_out,
                   scope_in, scope_out, pipeline, gemini, main_in, main_out>>

NextAdjust == CallAdjust

SpecAdjust == InitAdjust /\ [][NextAdjust]_vars

(* ------------------------------------------------------------------ *)
(* pricing_engine.py: PricingEngine                                     *)
(* ------------------------------------------------------------------ *)
\* Descriptions are sequences of characters; money is held in cents, quantities
\* in tenths of a unit, percentages of deviation in tenths of a percent, the
\* tax rate in hundredths of a percent and the pack-back discount in percent.
MaxItems == 2

\* str.strip(): the string without its leading and trailing blanks.
Strip(s) ==
    LET inked == {i \in 1..Len(s) : s[i] # " "}
    IN  IF inked = {} THEN <<>>
        ELSE SubSeq(s, CHOOSE i \in inked : \A j \in inked : i <= j,
                       CHOOSE i \in inked : \A j \in inked : j <= i)

\* set(s.split()): the maximal runs of non-blank characters of s.
Words(s) ==
    LET starts == {i \in 1..Len(s) : s[i] # " " /\ (i = 1 \/ s[i - 1] = " ")}
        ends == {j \in 1..Len(s) : s[j] # " " /\ (j = Len(s) \/ s[j + 1] = " ")}
        end_of(i) == CHOOSE j \in ends : j >= i /\ \A k \in ends : k >= i => j <= k
    IN  {SubSeq(s, i, end_of(i)) : i \in starts}

\* Rows of pricing_reference.csv.  build_pricing_db.py groups the history by the
\* description as written, so two rows may differ only in spacing or case.
PricingRows ==
    <<[desc |-> <<"M", "e", "d", " ", " ", "b", "o", "x">>, unit_cost_weighted_median |-> 300,
       unit |-> "EA", cat |-> "CPS", sel |-> "BXM", group_desc |-> "Packout"],
      [desc |-> <<"M", "e", "d", " ", "b", "o", "x">>, unit_cost_weighted_median |-> 400,
       unit |-> "EA", cat |-> "CPS", sel |-> "BXM", group_desc |-> "Packout"],
      [desc |-> <<"L", "g", " ", "b", "o", "x">>, unit_cost_weighted_median |-> 600,
       unit |-> "EA", cat |-> "CPS", sel |-> "BXL", group_desc |-> "Packout"],
      [desc |-> <<"T", "A", "G", " ", "i", "t", "e", "m">>, unit_cost_weighted_median |-> 2500,
       unit |-> "EA", cat |-> "CPS", sel |-> "TAG", group_desc |-> "Packout"],
      [desc |-> <<"H", "a", "u", "l", " ", "d", "e", "b", "r", "i", "s", " ", "l", "o", "a", "d">>, unit_cost_weighted_median |-> 15000,
       unit |-> "EA", cat |-> "DMO", sel |-> "PU", group_desc |-> "Debris"],
      [desc |-> <<"S", "t", "r", "e", "t", "c", "h", " ", "f", "i", "l", "m">>, unit_cost_weighted_median |-> 0,
       unit |-> "RL", cat |-> "CPS", sel |-> "WRAP", group_desc |-> "Packout"]>>

RECURSIVE pricing_lookup(_)
\* PricingEngine.__init__: the lookup dict, as the list of its (key, row) pairs
\* in insertion order; a later row with the same key replaces the row of the pair.
pricing_lookup(rows) ==
    IF rows = <<>> THEN <<>>
    ELSE LET before == pricing_lookup(SubSeq(rows, 1, Len(rows) - 1))
             row == rows[Len(rows)]
             key == Lower(Strip(row.desc))
         IN  IF \E i \in 1..Len(before) : before[i].key = key
             THEN [i \in 1..Len(before) |->
                      IF before[i].key = key THEN [key |-> key, row |-> row] ELSE before[i]]
             ELSE Append(before, [key |-> key, row |-> row])

\* PricingEngine(pricing_csv, tax_rate): the constructed engine.
PricingEngine(rows, tax_rate) ==
    [pricing_lookup |-> pricing_lookup(rows), tax_rate |-> tax_rate]

\* The engines of the model: the rows in both orders, without and with sales tax.
Engines ==
    {PricingEngine(PricingRows, 0),
     PricingEngine([i \in 1..Len(PricingRows) |-> PricingRows[Len(PricingRows) + 1 - i]],
                   825)}

\* The word-overlap score of a description key and a stored key, as the pair
\* overlap, total.
overlap_score(key, stored_key) ==
    LET desc_words == Words(key)
        stored_words == Words(stored_key)
    IN  [overlap |-> Cardinality(desc_words \cap stored_words),
         total |-> Max(Cardinality(desc_words \cup stored_words), 1)]

\* The partial match with a score of 0.6 accepted too.
best_match_at_threshold(lookup, key) ==
    LET score(i) == overlap_score(key, lookup[i].key)
        better(i, j) == score(i).overlap * score(j).total > score(j).overlap * score(i).total
        accepted == {i \in 1..Len(lookup) : 5 * score(i).overlap >= 3 * score(i).total}
        best == {i \in accepted :
                    \A j \in accepted : ~better(j, i) /\ (j < i => better(i, j))}
    IN  IF best = {} THEN [via |-> "none"]
        ELSE [via |-> "partial", row |-> lookup[CHOOSE i \in best : TRUE].row]

\* The partial match of find_price: the first pair with the highest score among
\* those that score above 0.6 (overlap / total > 0.6 iff 5 * overlap > 3 * total).
best_match(lookup, key) ==
    LET score(i) == overlap_score(key, lookup[i].key)
        better(i, j) == score(i).overlap * score(j).total > score(j).overlap * score(i).total
        accepted == {i \in 1..Len(lookup) : 5 * score(i).overlap > 3 * score(i).total}
        best == {i \in accepted :
                    \A j \in accepted : ~better(j, i) /\ (j < i => better(i, j))}
    IN  IF best = {} THEN [via |-> "none"]
        ELSE [via |-> "partial", row |-> lookup[CHOOSE i \in best : TRUE].row]

\* find_price with the exact match left out.
find_price_partial_only(self, desc) == best_match(self.pricing_lookup, Lower(Strip(desc)))

\* PricingEngine.find_price: the row found and the path that found it, or
\* [via |-> "none"] for None.
find_price(self, desc) ==
    LET key == Lower(Strip(desc))
        lookup == self.pricing_lookup
    IN  IF \E i \in 1..Len(lookup) : lookup[i].key = key
        THEN [via |-> "exact",
              row |-> lookup[CHOOSE i \in 1..Len(lookup) : lookup[i].key = key].row]
        ELSE best_match(lookup, key)

\* LineItem(desc=, qty=, unit=, unit_cost=): a fresh line item.  unit_cost is
\* <<>> for None and <<c>> for a cost of c cents.
LineItem(desc, qty, unit, unit_cost) ==
    [desc |-> desc, qty |-> qty, unit |-> unit, unit_cost |-> unit_cost,
     cat |-> "", sel |-> "", group_desc |-> "",
     applied_unit_cost |-> 0, rcv |-> 0, tax |-> 0, rcv_with_tax |-> 0,
     cost_source |-> "", deviation_pct |-> 0, is_flagged |-> FALSE, flag_reason |-> ""]

\* PhaseLineItem(desc=, qty=, unit=, unit_cost=, phase=)
PhaseLineItem(desc, qty, unit, unit_cost, phase) ==
    DictSet(LineItem(desc, qty, unit, unit_cost), "phase", phase)

\* x or y, for strings.
StrOr(x, y) == IF x # "" THEN x ELSE y

\* The first branch of price_line_item: a cost given by the caller is applied
\* and compared with the reference median.  flag_reason holds the kind of the
\* message, whose text is made of the item's fields.
manual_cost(item, ref) ==
    LET unit_cost == item.unit_cost[1]
        median == IF ref.via # "none" THEN ref.row.unit_cost_weighted_median ELSE 0
        applied == [item EXCEPT !.applied_unit_cost = unit_cost, !.cost_source = "override"]
    IN  IF ref.via # "none" /\ median > 0
        THEN {IF Abs(d) > 200
              THEN [applied EXCEPT !.deviation_pct = d, !.is_flagged = TRUE,
                                   !.flag_reason = "deviation"]
              ELSE [applied EXCEPT !.deviation_pct = d] :
                  d \in RoundSet((unit_cost - median) * 1000, median)}
        ELSE {applied}

\* PricingEngine.price_line_item: the items it can return.
price_line_item(self, item) ==
    LET ref == find_price(self, item.desc)
        costed ==
            IF item.unit_cost # <<>>
            THEN manual_cost(item, ref)
            ELSE IF ref.via # "none"
            THEN {[item EXCEPT !.applied_unit_cost = ref.row.unit_cost_weighted_median,
                               !.unit = StrOr(item.unit, ref.row.unit),
                               !.cat = StrOr(item.cat, ref.row.cat),
                               !.sel = StrOr(item.sel, ref.row.sel),
                               !.group_desc = StrOr(item.group_desc, ref.row.group_desc),
                               !.cost_source = "reference"]}
            ELSE {[item EXCEPT !.applied_unit_cost = 0, !.cost_source = "not_found",
                               !.is_flagged = TRUE, !.flag_reason = "not_found"]}
        zero_qty(c) ==
            IF c.qty = 0 /\ c.cost_source # "not_found"
            THEN [c EXCEPT !.is_flagged = TRUE, !.flag_reason = "zero_quantity"]
            ELSE c
    IN  UNION {UNION {{zero_qty([c EXCEPT !.rcv = rcv, !.tax = tax,
                                          !.rcv_with_tax = rcv + tax]) :
                           tax \in RoundSet(rcv * self.tax_rate, 10000)} :
                      rcv \in RoundSet(c.applied_unit_cost * c.qty, 10)} :
               c \in costed}

\* The end of price_estimate with the flagged lines left out of the subtotal.
EstimateResult_unflagged_subtotal(line_items) ==
    LET flagged == SelectSeq(line_items, LAMBDA i : i.is_flagged)
        clean == SelectSeq(line_items, LAMBDA i : ~i.is_flagged)
        missing == SelectSeq(line_items, LAMBDA i : i.cost_source = "not_found")
        subtotal_rcv == SumOver([k \in 1..Len(clean) |-> clean[k].rcv], Len(clean))
        total_tax == SumOver([k \in 1..Len(line_items) |-> line_items[k].tax], Len(line_items))
    IN  [status |-> "returned",
         line_items |-> line_items,
         subtotal_rcv |-> subtotal_rcv,
         total_tax |-> total_tax,
         total_rcv_with_tax |-> subtotal_rcv + total_tax,
         flags |-> [k \in 1..Len(flagged) |->
                       [desc |-> flagged[k].desc, reason |-> flagged[k].flag_reason,
                        unit_cost |-> flagged[k].applied_unit_cost,
                        deviation_pct |-> flagged[k].deviation_pct]],
         missing_items |-> [k \in 1..Len(missing) |-> missing[k].desc]]

\* The EstimateResult that price_estimate and price_5phase_estimate build from
\* the priced lines: the flags, the missing items and the totals, sums of
\* amounts in cents rounded to the cent.
EstimateResult(line_items) ==
    LET flagged == SelectSeq(line_items, LAMBDA i : i.is_flagged)
        missing == SelectSeq(line_items, LAMBDA i : i.cost_source = "not_found")
        subtotal_rcv == SumOver([k \in 1..Len(line_items) |-> line_items[k].rcv], Len(line_items))
        total_tax == SumOver([k \in 1..Len(line_items) |-> line_items[k].tax], Len(line_items))
    IN  [status |-> "returned",
         line_items |-> line_items,
         subtotal_rcv |-> subtotal_rcv,
         total_tax |-> total_tax,
         total_rcv_with_tax |-> subtotal_rcv + total_tax,
         flags |-> [k \in 1..Len(flagged) |->
                       [desc |-> flagged[k].desc, reason |-> flagged[k].flag_reason,
                        unit_cost |-> flagged[k].applied_unit_cost,
                        deviation_pct |-> flagged[k].deviation_pct]],
         missing_items |-> [k \in 1..Len(missing) |-> missing[k].desc]]

RECURSIVE price_estimate(_, _)
\* PricingEngine.price_estimate: the results it can return.
price_estimate(self, items) ==
    IF items = <<>> THEN {EstimateResult(<<>>)}
    ELSE {EstimateResult(Append(before.line_items, priced)) :
              before \in price_estimate(self, SubSeq(items, 1, Len(items) - 1)),
              priced \in price_line_item(self, items[Len(items)])}

\* The pack-back step of price_5phase_estimate applied to every pack-back item
\* without a manual cost, box item or not.
packback_discount_all_items(self, item, packback_box_discount) ==
    LET ref == find_price(self, item.desc)
    IN  IF DictGet(item, "phase", "") = "Pack back" /\ item.unit_cost = <<>>
           /\ ref.via # "none"
        THEN {[item EXCEPT !.unit_cost = <<c>>, !.cost_source = "packback_discount"] :
                  c \in RoundSet(ref.row.unit_cost_weighted_median
                                     * (100 - packback_box_discount), 100)}
        ELSE {item}

\* The pack-back step of price_5phase_estimate: a box item of the phase
\* 'Pack back' without a manual cost gets the discounted reference price as its
\* unit cost.
packback_discount(self, item, packback_box_discount) ==
    LET ref == find_price(self, item.desc)
    IN  IF DictGet(item, "phase", "") = "Pack back"
           /\ Contains(Lower(item.desc), <<"b", "o", "x">>)
           /\ item.unit_cost = <<>>
           /\ ref.via # "none"
        THEN {[item EXCEPT !.unit_cost = <<c>>, !.cost_source = "packback_discount"] :
                  c \in RoundSet(ref.row.unit_cost_weighted_median
                                     * (100 - packback_box_discount), 100)}
        ELSE {item}

RECURSIVE price_5phase_estimate(_, _, _)
\* PricingEngine.price_5phase_estimate: the results it can return.
price_5phase_estimate(self, items, packback_box_discount) ==
    IF items = <<>> THEN {EstimateResult(<<>>)}
    ELSE UNION
           {{EstimateResult(Append(before.line_items, priced)) :
                 before \in price_5phase_estimate(self, SubSeq(items, 1, Len(items) - 1),
                                                  packback_box_discount),
                 priced \in price_line_item(self, discounted)} :
            discounted \in packback_discount(self, items[Len(items)], packback_box_discount)}

MaxQtyHalves == 3

\* The descriptions of the items of the model: exact matches of a row, one in
\* other case and spacing, partial matches that score 2/3 and 3/5, and
\* descriptions the reference does not know, one of them with 'box' in it.
ItemDescs ==
    {<<"M", "e", "d", " ", "b", "o", "x">>,
     <<" ", "M", "E", "D", " ", "B", "O", "X">>,
     <<"M", "e", "d", " ", "b", "o", "x", " ", "X", "L">>,
     <<"L", "g", " ", "b", "o", "x">>,
     <<"T", "A", "G", " ", "i", "t", "e", "m">>,
     <<"H", "a", "u", "l", " ", "d", "e", "b", "r", "i", "s", " ", "l", "o", "a", "d", " ", "x", " ", "y">>,
     <<"G", "r", "a", "n", "d", " ", "p", "i", "a", "n", "o">>,
     <<"S", "t", "r", "e", "t", "c", "h", " ", "f", "i", "l", "m">>,
     <<"B", "o", "x", "i", "n", "g", " ", "h", "o", "u", "r">>}

\* The first item of a list: a PhaseLineItem of the phase Packout, with its
\* unit, or of the phase Pack back, without one; with or without a manual cost.
FirstItems ==
    {PhaseLineItem(desc, 5 * k, IF phase = "Packout" THEN "BX" ELSE "", unit_cost, phase) :
        desc \in ItemDescs, k \in 0..MaxQtyHalves,
        unit_cost \in {<<>>, <<3000>>, <<3001>>, <<3002>>},
        phase \in {"Packout", "Pack back"}}

\* The items that follow it.
OtherItems ==
    {PhaseLineItem(<<"M", "e", "d", " ", "b", "o", "x">>, 20, "EA", <<>>, "Pack back"),
     LineItem(<<"G", "r", "a", "n", "d", " ", "p", "i", "a", "n", "o">>, 10, "EA", <<>>),
     PhaseLineItem(<<"T", "A", "G", " ", "i", "t", "e", "m">>, 33, "", <<7904>>, "Handling to Storage")}

RECURSIVE ItemListsOfLen(_)
ItemListsOfLen(n) ==
    IF n = 0 THEN {<<>>}
    ELSE IF n = 1 THEN {<<i>> : i \in FirstItems}
    ELSE {Append(l, i) : l \in ItemListsOfLen(n - 1), i \in OtherItems}

\* The pricing calls of the model: price_estimate and price_5phase_estimate with
\* the default discount of 14% on the first engine, and with 25% on the second.
PriceCalls ==
    LET first == CHOOSE e \in Engines : e.tax_rate = 0
        second == CHOOSE e \in Engines : e.tax_rate # 0
    IN  {[self |-> first, method |-> "price_estimate", packback_box_discount |-> 14],
         [self |-> first, method |-> "price_5phase_estimate", packback_box_discount |-> 14],
         [self |-> second, method |-> "price_estimate", packback_box_discount |-> 14],
         [self |-> second, method |-> "price_5phase_estimate", packback_box_discount |-> 25]}

\* The lookups of the model: every description of an item or of a row, on
\* both engines.
FindPriceCalls ==
    {[call |-> [self |-> e, method |-> "find_price"], desc |-> d] :
        e \in Engines, d \in ItemDescs \cup {PricingRows[i].desc : i \in 1..Len(PricingRows)}}

InitPrice ==
    /\ price_in \in {[call |-> c, items |-> l] :
                        c \in PriceCalls, l \in UNION {ItemListsOfLen(n) : n \in 0..MaxItems}}
                    \cup FindPriceCalls
    /\ price_out = NoResult
    /\ CartageIdle /\ BoxIdle /\ VaultIdle /\ PadIdle /\ AdjustIdle /\ BuildIdle
    /\ ScopeIdle /\ PipelineIdle /\ GeminiIdle /\ MainIdle

\* engine.find_price(desc)
CallFindPrice ==
    /\ price_out = NoResult
    /\ price_in.call.method = "find_price"
    /\ price_out' = [status |-> "returned",
                     ref |-> find_price(price_in.call.self, price_in.desc)]
    /\ UNCHANGED <<price_in, cartage_in, cartage_out, box_in, box_out, vault_in, vault_out,
                   pad_in, pad_out, adjust_in, adjust_out, build_in, build_out,
                   scope_in, scope_out, pipeline, gemini, main_in, main_out>>

\* engine.price_estimate(items)
CallPriceEstimate ==
    /\ price_out = NoResult
    /\ price_in.call.method = "price_estimate"
    /\ price_out' \in price_estimate(price_in.call.self, price_in.items)
    /\ UNCHANGED <<price_in, cartage_in, cartage_out, box_in, box_out, vault_in, vault_out,
                   pad_in, pad_out, adjust_in, adjust_out, build_in, build_out,
                   scope_in, scope_out, pipeline, gemini, main_in, main_out>>

\* engine.price_5phase_estimate(items, packback_box_discount)
CallPrice5PhaseEstimate ==
    /\ price_out = NoResult
    /\ price_in.call.method = "price_5phase_estimate"
    /\ price_out' \in price_5phase_estimate(price_in.call.self, price_in.items,
                                            price_in.call.packback_box_discount)
    /\ UNCHANGED <<price_in, cartage_in, cartage_out, box_in, box_out, vault_in, vault_out,
                   pad_in, pad_out, adjust_in, adjust_out, build_in, build_out,
                   scope_in, scope_out, pipeline, gemini, main_in, main_out>>

NextPrice == CallFindPrice \/ CallPriceEstimate \/ CallPrice5PhaseEstimate

SpecPrice == InitPrice /\ [][NextPrice]_vars

(* ------------------------------------------------------------------ *)
(* pricing_engine.py: build_5phase_estimate                             *)
(* ------------------------------------------------------------------ *)
\* The descriptions of the template are held as plain strings; quantities are
\* in tenths of a unit and costs in cents, as in the pricing engine.
MaxBuildTags == 2
MaxBuildBoxes == 2
MaxLgBoxes == 2
MaxXlBoxes == 2

\* build_5phase_estimate: the (items, packback_box_discount) pairs it can
\* return.  pad_count and climate_storage_sf are <<>> for None; the counts are
\* whole numbers, handling_hours is in tenths of an hour.
build_5phase_estimate(tag_count, box_count, handling_hours, moving_van_days, storage_months, lg_boxes, xl_boxes, pad_count, handling_rate, packback_box_discount, bubble_wrap_width, climate_storage_sf) ==
    LET Item(desc, qty, unit, unit_cost, phase) ==
            <<PhaseLineItem(desc, 10 * qty, unit, unit_cost, phase)>>
        Med == "Eval. pack & invent. misc items - per Med box-high density"
        Lg == "Eval. pack & invent. misc items - per Lg box-high density"
        Xlg == "Eval. pack & invent. misc items - per Xlg box-high density"
        Tag == "Evaluate, tag, & inventory miscellaneous - per item"
        Labor == "Inventory, Packing, Boxing, and Moving charge - per hour"
        Van == "Moving van (21'-27') and equipment (per day)"
        pad_counts == IF pad_count = <<>>
                      THEN {r.count : r \in _adaptive_pad_count(tag_count)}
                      ELSE {pad_count[1]}
        items(pads) ==
            \* Phase 1: Packout
            Item(Med, box_count, "EA", <<>>, "Packout")
            \o (IF lg_boxes > 0 THEN Item(Lg, lg_boxes, "EA", <<>>, "Packout") ELSE <<>>)
            \o (IF xl_boxes > 0 THEN Item(Xlg, xl_boxes, "EA", <<>>, "Packout") ELSE <<>>)
            \o Item(Tag, tag_count, "EA", <<>>, "Packout")
            \o Item("Provide furniture lightweight blanket/pad", pads, "EA", <<>>, "Packout")
            \o (IF bubble_wrap_width = 48
                THEN Item("Bubble wrap - 48\" wide - Add-on cost for fragile items",
                          Max(100, box_count * 7), "LF", <<40>>, "Packout")
                ELSE Item("Bubble wrap - 24\" wide - Add-on cost for fragile items",
                          Max(50, box_count * 3), "LF", <<>>, "Packout"))
            \o Item("Provide stretch film/wrap - 20\" x 1000' roll",
                    Max(2, box_count \div 35), "RL", <<>>, "Packout")
            \* Phase 2: Handling to Storage
            \o <<PhaseLineItem(Labor, handling_hours, "HR", <<handling_rate>>,
                               "Handling to Storage")>>
            \o Item(Van, moving_van_days, "EA", <<>>, "Handling to Storage")
            \* Phase 3: Storage
            \o Item("Off-site storage vault (per month)", storage_months, "MO", <<>>, "Storage")
            \o (IF climate_storage_sf # <<>> /\ climate_storage_sf[1] > 0
                THEN Item("Off-site storage & insur. - climate control. (per month)",
                          climate_storage_sf[1], "SF", <<>>, "Storage")
                ELSE <<>>)
            \* Phase 4: Handling from Storage
            \o Item(Van, moving_van_days, "EA", <<>>, "Handling from Storage")
            \o <<PhaseLineItem(Labor, handling_hours, "HR", <<handling_rate>>,
                               "Handling from Storage")>>
            \* Phase 5: Pack back
            \o Item(Med, box_count, "EA", <<>>, "Pack back")
            \o (IF lg_boxes > 0 THEN Item(Lg, lg_boxes, "EA", <<>>, "Pack back") ELSE <<>>)
            \o Item(Tag, tag_count, "EA", <<>>, "Pack back")
            \o Item("Haul debris - per pickup truck load - including dump fees",
                    1, "EA", <<>>, "Pack back")
    IN  {[status |-> "returned", items |-> items(pads),
          packback_box_discount |-> packback_box_discount] : pads \in pad_counts}

\* The calls of the model: the counts vary, with the 100 TAGs and 150 boxes of
\* the module's example among them; 12.5 handling hours at the default rate, 2
\* van days and 8 vault-months.
InitBuild ==
    /\ build_in \in [tag_count : (0..MaxBuildTags) \cup {100},
                     box_count : (0..MaxBuildBoxes) \cup {150},
                     lg_boxes : 0..MaxLgBoxes,
                     xl_boxes : 0..MaxXlBoxes,
                     pad_count : {<<>>, <<5>>},
                     bubble_wrap_width : {48, 24},
                     climate_storage_sf : {<<>>, <<0>>, <<100>>}]
    /\ build_out = NoResult
    /\ CartageIdle /\ BoxIdle /\ VaultIdle /\ PadIdle /\ AdjustIdle /\ PriceIdle
    /\ ScopeIdle /\ PipelineIdle /\ GeminiIdle /\ MainIdle

\* generate_5phase_estimate and the run scripts call build_5phase_estimate.
CallBuild5PhaseEstimate ==
    /\ build_out = NoResult
    /\ build_out' \in build_5phase_estimate(
                          build_in.tag_count, build_in.box_count, 125, 2, 8,
                          build_in.lg_boxes, build_in.xl_boxes, build_in.pad_count,
                          7904, 14, build_in.bubble_wrap_width, build_in.climate_storage_sf)
    /\ UNCHANGED <<build_in, cartage_in, cartage_out, box_in, box_out, vault_in, vault_out,
                   pad_in, pad_out, adjust_in, adjust_out, price_in, price_out,
                   scope_in, scope_out, pipeline, gemini, main_in, main_out>>

NextBuild == CallBuild5PhaseEstimate

SpecBuild == InitBuild /\ [][NextBuild]_vars

(* ------------------------------------------------------------------ *)
(* scope_checker.py: ScopeChecker.check                                 *)
(* ------------------------------------------------------------------ *)
\* Descriptions and patterns are strings; quantities are in tenths of a unit.
MaxZeroLines == 3

RECURSIVE str_lower(_)
\* str.lower() of a string, character by character.
str_lower(s) ==
    IF s = "" THEN ""
    ELSE LowerChar(SubSeq(s, 1, 1)) \o str_lower(SubSeq(s, 2, Len(s)))

RECURSIVE re_search(_, _)
\* re.search of a pattern 'a.*b.*c', held as the sequence of its literal pieces
\* <<a, b, c>>, in a text without line breaks: the pieces occur in this order,
\* one after the end of the other.
re_search(pattern, text) ==
    IF pattern = <<>> THEN TRUE
    ELSE LET piece == Head(pattern)
             starts == {i \in 1..(Len(text) - Len(piece) + 1) :
                            SubSeq(text, i, i + Len(piece) - 1) = piece}
             first == CHOOSE i \in starts : \A j \in starts : i <= j
         IN  /\ starts # {}
             /\ re_search(Tail(pattern), SubSeq(text, first + Len(piece), Len(text)))

\* REQUIRED_ELEMENTS, in the order of the dict.
REQUIRED_ELEMENTS ==
    <<[id |-> "packing_labor",
       patterns |-> <<<<"packing", "boxing", "moving", "per hour">>,
                      <<"moving charge", "per hour">>,
                      <<"inventory", "packing", "boxing">>>>,
       severity |-> "critical", message |-> "Missing packing labor (CPS LAB)"],
      [id |-> "supervisor",
       patterns |-> <<<<"supervisor", "admin", "per hour">>,
                      <<"contents evaluation", "per hour">>>>,
       severity |-> "critical", message |-> "Missing supervisor hours (CPS LABS)"],
      [id |-> "tag_inventory",
       patterns |-> <<<<"evaluate", "tag", "inventory">>, <<"tag", "inventory", "per item">>>>,
       severity |-> "critical", message |-> "Missing TAG item inventory line"],
      [id |-> "box_packing",
       patterns |-> <<<<"med box", "high density">>, <<"per med box">>>>,
       severity |-> "critical",
       message |-> "Missing box packing line (med box high density)"],
      [id |-> "moving_van",
       patterns |-> <<<<"moving van", "per day">>, <<"moving van", "equipment">>>>,
       severity |-> "critical", message |-> "Missing moving van rental"],
      [id |-> "storage",
       patterns |-> <<<<"storage vault", "per month">>, <<"off-site storage">>>>,
       severity |-> "warning",
       message |-> "Missing storage - most packouts need at least 3 months"],
      [id |-> "furniture_pads",
       patterns |-> <<<<"furniture", "blanket", "pad">>, <<"lightweight blanket">>>>,
       severity |-> "warning", message |-> "Missing furniture pads/blankets"],
      [id |-> "stretch_wrap",
       patterns |-> <<<<"stretch film", "wrap">>, <<"stretch wrap">>>>,
       severity |-> "warning", message |-> "Missing stretch film/wrap"],
      [id |-> "haul_debris",
       patterns |-> <<<<"haul debris", "pickup">>, <<"dump fee">>>>,
       severity |-> "warning", message |-> "Missing debris haul"]>>

\* PHASES
PHASES ==
    [packout |-> <<<<"packing", "boxing", "moving">>, <<"inventory", "packing">>,
                   <<"evaluate", "tag">>>>,
     storage |-> <<<<"storage vault">>, <<"off-site storage">>, <<"storage", "insur">>>>,
     packback |-> <<<<"unpack", "invent">>, <<"unpack", "reset">>, <<"packback">>>>,
     cleaning |-> <<<<"clean misc items">>, <<"clean bric-a-brac">>, <<"clean", "med box">>>>]

\* The loop over the patterns of an element or of a phase (or the alternatives
\* of one regular expression): one of them is found in the text.
found(patterns, text) == \E k \in 1..Len(patterns) : re_search(patterns[k], text)

RECURSIVE desc_text(_)
\* ' | '.join(descs)
desc_text(descs) ==
    IF descs = <<>> THEN ""
    ELSE IF Len(descs) = 1 THEN descs[1]
    ELSE descs[1] \o " | " \o desc_text(Tail(descs))

ScopeFlag(severity, category, message) ==
    [severity |-> severity, category |-> category, message |-> message]

\* The same penalty for every missing element.
penalty_flat(element) == 5

\* The penalty of a missing element: 15 if element['severity'] == 'critical' else 5
penalty(element) == IF element.severity = "critical" THEN 15 ELSE 5

\* A line of quantity 0 taken for a placeholder whatever its description.
zero_qty_any_desc(item) == DictGet(item, "qty", 0) = 0

\* A zero-quantity placeholder: qty == 0 and desc
zero_qty(item) == DictGet(item, "qty", 0) = 0 /\ DictGet(item, "desc", "") # ""

\* ScopeChecker.check: the ScopeCheckResult it returns.  A job_context of None
\* and one of {} are the empty dict.
check(line_items, job_context) ==
    LET text == desc_text([i \in 1..Len(line_items) |->
                              str_lower(DictGet(line_items[i], "desc", ""))])
        missing == SelectSeq(REQUIRED_ELEMENTS, LAMBDA e : ~found(e.patterns, text))
        zero == SelectSeq(line_items, zero_qty)
        absent(phase) == ~found(PHASES[phase], text)
        tag_count == DictGet(job_context, "tag_count", 0)
        box_count == DictGet(job_context, "box_count", 0)
        score == 100
                 - SumOver([k \in 1..Len(missing) |-> penalty(missing[k])], Len(missing))
                 - 2 * Len(zero)
    IN  [status |-> "returned",
         flags |->
             [k \in 1..Len(missing) |->
                 ScopeFlag(missing[k].severity, "missing_element", missing[k].message)]
             \o [k \in 1..Len(zero) |->
                    ScopeFlag("warning", "zero_qty",
                              "Zero quantity: "
                                  \o SubSeq(DictGet(zero[k], "desc", ""), 1,
                                            Min(60, Len(DictGet(zero[k], "desc", "")))))]
             \o (IF absent("packout")
                 THEN <<ScopeFlag("critical", "missing_phase", "No packout scope found")>>
                 ELSE <<>>)
             \o (IF absent("storage")
                 THEN <<ScopeFlag("warning", "missing_phase",
                                "No storage scope - 86% of packouts include storage")>>
                 ELSE <<>>)
             \o (IF absent("cleaning")
                 THEN <<ScopeFlag("info", "missing_phase",
                                "No cleaning scope - only 14% of estimates include cleaning (commonly added later as supplement)")>>
                 ELSE <<>>),
         missing_phases |->
             (IF absent("packout") THEN <<"packout">> ELSE <<>>)
             \o (IF absent("storage") THEN <<"storage">> ELSE <<>>)
             \o (IF absent("cleaning") THEN <<"cleaning">> ELSE <<>>),
         missing_materials |-> <<>>,
         suggested_additions |->
             (IF tag_count > 50 /\ ~re_search(<<"wardrobe box">>, text)
              THEN <<[desc |-> "Provide wardrobe box & tape - large size",
                      suggested_qty |-> Max(2, tag_count \div 20)]>>
              ELSE <<>>)
             \o (IF box_count > 100 /\ ~re_search(<<"packing paper">>, text)
                 THEN <<[desc |-> "Provide box, packing paper & tape - medium size",
                         suggested_qty |-> Max(5, box_count \div 20)]>>
                 ELSE <<>>)
             \o (IF box_count > 50
                    /\ ~found(<<<<"lg box", "high density">>, <<"per lg box">>>>, text)
                 THEN <<[desc |-> "Eval. pack & invent. misc items - per Lg box-high density",
                         suggested_qty |-> Max(1, box_count \div 20)]>>
                 ELSE <<>>),
         score |-> Max(0, score)]

\* The lines of a draft: the lines of the five critical elements (the labor
\* line as the template writes it, or in its short form), those of the four
\* other elements, placeholder lines of quantity 0, and lines that lack a
\* description or a quantity.  A draft has placeholders, or an odd line, or
\* neither; the job context is given for drafts with at most one placeholder.
ScopeLines ==
    <<[desc |-> "Inventory, Packing, Boxing, and Moving charge - per hour", qty |-> 125],
      [desc |-> "Supervisor/Admin - per hour", qty |-> 20],
      [desc |-> "Evaluate, tag, & inventory miscellaneous - per item", qty |-> 1000],
      [desc |-> "Eval. pack & invent. misc items - per Med box-high density", qty |-> 1500],
      [desc |-> "Moving van (21'-27') and equipment (per day)", qty |-> 20],
      [desc |-> "Off-site storage vault (per month)", qty |-> 80],
      [desc |-> "Provide furniture lightweight blanket/pad", qty |-> 1230],
      [desc |-> "Provide stretch film/wrap - 20\" x 1000' roll", qty |-> 40],
      [desc |-> "Haul debris - per pickup truck load - including dump fees", qty |-> 10]>>

PlaceholderLines ==
    <<[desc |-> "Provide wardrobe box & tape - large size", qty |-> 0],
      [desc |-> "Clean misc items", qty |-> 0],
      [desc |-> "Content manipulation charge - per hour", qty |-> 0]>>

\* The draft with the chosen critical lines, the first `warnings` other lines,
\* `placeholders` lines of quantity 0 and the odd line.
ScopeDraft(critical, short_labor, warnings, placeholders, odd) ==
    SelectSeq([i \in 1..5 |-> IF i = 1 /\ short_labor
                              THEN [desc |-> "Moving charge - per hour", qty |-> 125]
                              ELSE ScopeLines[i]],
              LAMBDA line : \E i \in critical :
                                \/ line = ScopeLines[i]
                                \/ i = 1 /\ line.desc = "Moving charge - per hour")
        \o [i \in 1..warnings |-> ScopeLines[5 + i]]
        \o [i \in 1..placeholders |-> PlaceholderLines[Min(i, Len(PlaceholderLines))]]
        \o odd

InitScope ==
    /\ \E critical \in SUBSET (1..5), short_labor \in BOOLEAN, warnings \in 0..4,
          placeholders \in 0..MaxZeroLines,
          odd \in {<<>>, <<[qty |-> 0]>>, <<[desc |-> "", qty |-> 0]>>,
                   <<[desc |-> "Unpack and reset"]>>},
          context \in {EmptyDict, [tag_count |-> 60, box_count |-> 120]} :
           /\ odd = <<>> \/ placeholders = 0
           /\ context = EmptyDict \/ (odd = <<>> /\ placeholders <= 1)
           /\ scope_in =
                  [line_items |-> ScopeDraft(critical, short_labor, warnings, placeholders, odd),
                   job_context |-> context]
    /\ scope_out = NoResult
    /\ CartageIdle /\ BoxIdle /\ VaultIdle /\ PadIdle /\ AdjustIdle /\ PriceIdle /\ BuildIdle
    /\ PipelineIdle /\ GeminiIdle /\ MainIdle

\* checker.check(scope_items, job_context={...})
CallCheck ==
    /\ scope_out = NoResult
    /\ scope_out' = check(scope_in.line_items, scope_in.job_context)
    /\ UNCHANGED <<scope_in, cartage_in, cartage_out, box_in, box_out, vault_in, vault_out,
                   pad_in, pad_out, adjust_in, adjust_out, price_in, price_out,
                   build_in, build_out, pipeline, gemini, main_in, main_out>>

NextScope == CallCheck

SpecScope == InitScope /\ [][NextScope]_vars

(* ------------------------------------------------------------------ *)
(* video_pipeline.py: run_pipeline, one action per step of the run.     *)
(* The outcome of each stage (ffmpeg, Whisper, Gemini, Claude, the      *)
(* estimator) is an input of the step.                                  *)
(* ------------------------------------------------------------------ *)

\* The highest total of an estimate, in thousands of dollars.
MaxRcv == 2

\* PipelineResult(video_path, customer_name, mode) with its defaults, and the
\* position of the run: `calls` lists the stages invoked so far, `whisper`,
\* `visual` and `merge` the outcome of each stage, `raised` the exception that
\* left run_pipeline.
PipelineResult(mode) ==
    [pc |-> "whisper", mode |-> mode, calls |-> <<>>,
     whisper |-> "", visual |-> "", merge |-> "",
     transcript_text |-> "", visual_rooms |-> <<>>, final_rooms_json |-> <<>>,
     total_rcv |-> 0, whisper_error |-> "", merge_error |-> "", fatal_error |-> "",
     raised |-> ""]

ok_without_total(result) == result.fatal_error = ""

\* PipelineResult.ok
ok(result) == result.fatal_error = "" /\ result.total_rcv > 0

\* SummaryResult.to_rooms_json over the rooms of gemini_fallback: the counts
\* Gemini estimated become the override counts of the room.
gemini_fallback(visual_analysis_rooms) ==
    [k \in 1..Len(visual_analysis_rooms) |->
        [room_name |-> DictGet(visual_analysis_rooms[k], "room_name", "Unknown"),
         room_category |-> DictGet(visual_analysis_rooms[k], "room_category", "other"),
         density |-> DictGet(visual_analysis_rooms[k], "density", "medium"),
         override_tags |-> DictGet(visual_analysis_rooms[k], "estimated_tags", 0),
         override_boxes |-> DictGet(visual_analysis_rooms[k], "estimated_boxes", 0)]]

InitPipeline ==
    /\ \E skip_whisper \in BOOLEAN, gemini_only \in BOOLEAN :
           pipeline = PipelineResult(IF gemini_only THEN "gemini-only"
                                     ELSE IF skip_whisper THEN "skip-whisper" ELSE "full")
    /\ CartageIdle /\ BoxIdle /\ VaultIdle /\ PadIdle /\ AdjustIdle /\ PriceIdle /\ BuildIdle
    /\ ScopeIdle /\ GeminiIdle /\ MainIdle

\* Step 1: extract_audio, chunk_audio, transcribe_audio and cleanup_temp_audio
\* inside one try block; every exception ends in whisper_error.
StepWhisper ==
    /\ pipeline # NoResult
    /\ pipeline.pc = "whisper"
    /\ \/ /\ pipeline.mode = "full"
          /\ \E outcome \in {"ffmpeg_not_found", "ffmpeg_failed", "api_error", "no_speech",
                             "ok", "cleanup_failed"} :
                pipeline' =
                    [pipeline EXCEPT
                        !.pc = "gemini",
                        !.whisper = outcome,
                        !.calls = IF outcome \in {"ffmpeg_not_found", "ffmpeg_failed"}
                                  THEN @ \o <<"extract_audio">>
                                  ELSE @ \o <<"extract_audio", "transcribe_audio">>,
                        !.transcript_text = IF outcome \in {"ok", "cleanup_failed"}
                                            THEN "Pack the whole kitchen." ELSE "",
                        !.whisper_error =
                            CASE outcome = "ffmpeg_not_found" -> "ffmpeg not found."
                              [] outcome = "ffmpeg_failed" -> "ffmpeg audio extraction failed:"
                              [] outcome = "api_error" -> "Whisper API error: timeout"
                              [] outcome = "cleanup_failed" -> "[Errno 13] Permission denied"
                              [] OTHER -> ""]
       \/ /\ pipeline.mode # "full"
          /\ pipeline' = [pipeline EXCEPT !.pc = "gemini"]
    /\ UNCHANGED <<cartage_in, cartage_out, box_in, box_out, vault_in, vault_out,
                   pad_in, pad_out, adjust_in, adjust_out, price_in, price_out,
                   build_in, build_out, scope_in, scope_out, gemini, main_in, main_out>>

\* Step 2: analyze_video; a result that is not ok is fatal and ends the run.
StepGemini ==
    /\ pipeline # NoResult
    /\ pipeline.pc = "gemini"
    /\ \E visual \in {[error |-> "Gemini file processing exceeded 300s timeout", rooms |-> <<>>],
                      [error |-> "GOOGLE_API_KEY not set in environment or .env", rooms |-> <<>>],
                      [error |-> "",
                       rooms |-> <<[room_name |-> "Kitchen", room_category |-> "kitchen",
                                    density |-> "medium", estimated_tags |-> 3,
                                    estimated_boxes |-> 10]>>],
                      [error |-> "",
                       rooms |-> <<[room_name |-> "Hall", estimated_tags |-> 2,
                                    estimated_boxes |-> 0],
                                   [room_name |-> "Primary Closet", room_category |-> "closet",
                                    density |-> "heavy", estimated_tags |-> 1,
                                    estimated_boxes |-> 30]>>]} :
           IF ~(visual.error = "" /\ Len(visual.rooms) > 0)
           THEN pipeline' =
                    [pipeline EXCEPT
                        !.pc = "returned", !.visual = "failed",
                        !.calls = @ \o <<"analyze_video">>,
                        !.fatal_error = "Gemini analysis failed (FATAL): " \o visual.error]
           ELSE pipeline' =
                    [pipeline EXCEPT
                        !.pc = "merge", !.visual = "ok",
                        !.calls = @ \o <<"analyze_video">>,
                        !.visual_rooms = visual.rooms]
    /\ UNCHANGED <<cartage_in, cartage_out, box_in, box_out, vault_in, vault_out,
                   pad_in, pad_out, adjust_in, adjust_out, price_in, price_out,
                   build_in, build_out, scope_in, scope_out, gemini, main_in, main_out>>

\* Step 3: gemini_fallback in gemini-only mode, otherwise summarize, whose
\* result replaces the visual rooms when it is ok. summarize catches
\* anthropic.APIError only: a reply without content (IndexError) or with a
\* count that is not a number (TypeError) leaves run_pipeline as an exception.
StepMerge ==
    /\ pipeline # NoResult
    /\ pipeline.pc = "merge"
    /\ \/ /\ pipeline.mode = "gemini-only"
          /\ pipeline' =
                 [pipeline EXCEPT
                     !.pc = "estimate",
                     !.calls = @ \o <<"gemini_fallback">>,
                     !.final_rooms_json = gemini_fallback(pipeline.visual_rooms)]
       \/ /\ pipeline.mode # "gemini-only"
          /\ \E outcome \in {"ok", "no_api_key", "api_error", "unparseable",
                             "IndexError", "TypeError"} :
                CASE outcome = "ok" ->
                       pipeline' =
                           [pipeline EXCEPT
                               !.pc = "estimate", !.merge = outcome,
                               !.calls = @ \o <<"summarize">>,
                               !.final_rooms_json =
                                   <<[room_name |-> "Kitchen", room_category |-> "kitchen",
                                      density |-> "light", override_tags |-> 1,
                                      override_boxes |-> 4]>>]
                  [] outcome \in {"IndexError", "TypeError"} ->
                       pipeline' =
                           [pipeline EXCEPT
                               !.pc = "raised", !.merge = outcome,
                               !.calls = @ \o <<"summarize">>,
                               !.raised = outcome]
                  [] OTHER ->
                       pipeline' =
                           [pipeline EXCEPT
                               !.pc = "estimate", !.merge = outcome,
                               !.calls = @ \o <<"summarize", "gemini_fallback">>,
                               !.merge_error =
                                   CASE outcome = "no_api_key" ->
                                          "ANTHROPIC_API_KEY not set in environment or .env"
                                     [] outcome = "api_error" -> "Claude API error: overloaded"
                                     [] OTHER -> "Failed to parse Claude response. Raw: Sorry",
                               !.final_rooms_json = gemini_fallback(pipeline.visual_rooms)]
    /\ UNCHANGED <<cartage_in, cartage_out, box_in, box_out, vault_in, vault_out,
                   pad_in, pad_out, adjust_in, adjust_out, price_in, price_out,
                   build_in, build_out, scope_in, scope_out, gemini, main_in, main_out>>

\* Step 4: analyze_from_rooms_json and generate_5phase_estimate inside a try
\* block; an exception is fatal, otherwise total_rcv is the estimate's total.
StepEstimate ==
    /\ pipeline # NoResult
    /\ pipeline.pc = "estimate"
    /\ \/ pipeline' =
              [pipeline EXCEPT
                  !.pc = "returned",
                  !.calls = @ \o <<"generate_5phase_estimate">>,
                  !.fatal_error = "Estimate generation failed: 'total_rcv'"]
       \/ \E total_rcv \in 0..MaxRcv :
              pipeline' =
                  [pipeline EXCEPT
                      !.pc = "returned",
                      !.calls = @ \o <<"generate_5phase_estimate">>,
                      !.total_rcv = total_rcv]
    /\ UNCHANGED <<cartage_in, cartage_out, box_in, box_out, vault_in, vault_out,
                   pad_in, pad_out, adjust_in, adjust_out, price_in, price_out,
                   build_in, build_out, scope_in, scope_out, gemini, main_in, main_out>>

NextPipeline == StepWhisper \/ StepGemini \/ StepMerge \/ StepEstimate

SpecPipeline == InitPipeline /\ [][NextPipeline]_vars

(* ------------------------------------------------------------------ *)
(* gemini_video_analyzer.py: analyze_video and _upload_and_wait, one    *)
(* action per step. Time is counted in seconds from the start of the    *)
(* poll; the answers of the Files API are inputs of the steps.          *)
(* ------------------------------------------------------------------ *)

\* The timeouts tried are 5, 15, ... seconds, up to 5 + 10 * MaxPolls.
MaxPolls == 2
\* The longest time a call of client.files.get takes, in seconds.
MaxLatency == 2

InitGemini ==
    /\ \E api_key \in BOOLEAN, exists \in BOOLEAN, polls \in 0..MaxPolls :
           gemini = [pc |-> "start", api_key |-> api_key, exists |-> exists,
                     timeout |-> 5 + 10 * polls, clock |-> 0, state |-> "",
                     uploaded |-> FALSE, video_file |-> FALSE, deleted |-> FALSE,
                     error |-> "", rooms |-> 0]
    /\ CartageIdle /\ BoxIdle /\ VaultIdle /\ PadIdle /\ AdjustIdle /\ PriceIdle /\ BuildIdle
    /\ ScopeIdle /\ PipelineIdle /\ MainIdle

\* analyze_video up to the try block: without an API key or without the video
\* the function returns before anything is uploaded.
Start ==
    /\ gemini # NoResult
    /\ gemini.pc = "start"
    /\ gemini' =
           IF ~gemini.api_key
           THEN [gemini EXCEPT !.pc = "returned",
                               !.error = "GOOGLE_API_KEY not set in environment or .env"]
           ELSE IF ~gemini.exists
           THEN [gemini EXCEPT !.pc = "returned", !.error = "Video not found"]
           ELSE [gemini EXCEPT !.pc = "upload"]
    /\ UNCHANGED <<cartage_in, cartage_out, box_in, box_out, vault_in, vault_out,
                   pad_in, pad_out, adjust_in, adjust_out, price_in, price_out,
                   build_in, build_out, scope_in, scope_out, pipeline, main_in, main_out>>

\* _upload_and_wait: client.files.upload, which raises or returns the file in
\* some state; the clock of the poll starts.
Upload ==
    /\ gemini # NoResult
    /\ gemini.pc = "upload"
    /\ \/ gemini' = [gemini EXCEPT !.pc = "finally",
                                   !.error = "Gemini analysis failed: ConnectionError"]
       \/ \E state \in {"PROCESSING", "ACTIVE", "FAILED"} :
              gemini' = [gemini EXCEPT !.pc = "poll", !.uploaded = TRUE,
                                       !.state = state, !.clock = 0]
    /\ UNCHANGED <<cartage_in, cartage_out, box_in, box_out, vault_in, vault_out,
                   pad_in, pad_out, adjust_in, adjust_out, price_in, price_out,
                   build_in, build_out, scope_in, scope_out, pipeline, main_in, main_out>>

\* _upload_and_wait: one round of the loop `while state == PROCESSING`:
\* TimeoutError once the elapsed time is above the timeout, otherwise
\* time.sleep(10) and client.files.get, which raises or returns the file in its
\* new state.
Poll ==
    /\ gemini # NoResult
    /\ gemini.pc = "poll"
    /\ gemini.state = "PROCESSING"
    /\ IF gemini.clock > gemini.timeout
       THEN gemini' = [gemini EXCEPT !.pc = "finally",
                                     !.error = "Gemini file processing exceeded timeout"]
       ELSE \E latency \in 0..MaxLatency :
               \/ gemini' = [gemini EXCEPT !.pc = "finally",
                                           !.clock = @ + 10 + latency,
                                           !.error = "Gemini analysis failed: ServerError"]
               \/ \E state \in {"PROCESSING", "ACTIVE", "FAILED"} :
                      gemini' = [gemini EXCEPT !.clock = @ + 10 + latency, !.state = state]
    /\ UNCHANGED <<cartage_in, cartage_out, box_in, box_out, vault_in, vault_out,
                   pad_in, pad_out, adjust_in, adjust_out, price_in, price_out,
                   build_in, build_out, scope_in, scope_out, pipeline, main_in, main_out>>

\* _upload_and_wait after the loop: RuntimeError on FAILED, otherwise the file
\* is returned and analyze_video binds it to video_file.
Ready ==
    /\ gemini # NoResult
    /\ gemini.pc = "poll"
    /\ gemini.state # "PROCESSING"
    /\ gemini' =
           IF gemini.state = "FAILED"
           THEN [gemini EXCEPT !.pc = "finally",
                               !.error = "Gemini analysis failed: RuntimeError"]
           ELSE [gemini EXCEPT !.pc = "generate", !.video_file = TRUE]
    /\ UNCHANGED <<cartage_in, cartage_out, box_in, box_out, vault_in, vault_out,
                   pad_in, pad_out, adjust_in, adjust_out, price_in, price_out,
                   build_in, build_out, scope_in, scope_out, pipeline, main_in, main_out>>

\* analyze_video: generate_content and _parse_rooms_response: an exception, a
\* reply without rooms, or the rooms.
Generate ==
    /\ gemini # NoResult
    /\ gemini.pc = "generate"
    /\ \/ gemini' = [gemini EXCEPT !.pc = "finally",
                                   !.error = "Gemini analysis failed: ServerError"]
       \/ gemini' = [gemini EXCEPT !.pc = "finally",
                                   !.error = "Failed to parse rooms from Gemini response."]
       \/ \E rooms \in 1..2 : gemini' = [gemini EXCEPT !.pc = "finally", !.rooms = rooms]
    /\ UNCHANGED <<cartage_in, cartage_out, box_in, box_out, vault_in, vault_out,
                   pad_in, pad_out, adjust_in, adjust_out, price_in, price_out,
                   build_in, build_out, scope_in, scope_out, pipeline, main_in, main_out>>

\* analyze_video, the finally block: client.files.delete(name=video_file.name)
\* inside `try ... except Exception: pass`. When video_file was never bound the
\* expression raises a NameError, which is passed over, and delete is not
\* called.
Finally ==
    /\ gemini # NoResult
    /\ gemini.pc = "finally"
    /\ gemini' = [gemini EXCEPT !.pc = "returned", !.deleted = gemini.video_file]
    /\ UNCHANGED <<cartage_in, cartage_out, box_in, box_out, vault_in, vault_out,
                   pad_in, pad_out, adjust_in, adjust_out, price_in, price_out,
                   build_in, build_out, scope_in, scope_out, pipeline, main_in, main_out>>

NextGemini == Start \/ Upload \/ Poll \/ Ready \/ Generate \/ Finally

SpecGemini == InitGemini /\ [][NextGemini]_vars

\* The steps of analyze_video follow one another without waiting for anything
\* but the return of the call they make.
SpecGeminiFair == SpecGemini /\ WF_vars(NextGemini)

(* ------------------------------------------------------------------ *)
(* estimate.py: main without --video and --boxes, from the room list    *)
(* to the printed summary, with analyze_from_rooms_json                 *)
(* (photo_analyzer.py) and generate_5phase_estimate                     *)
(* (generate_estimate.py).                                              *)
(* ------------------------------------------------------------------ *)

\* The highest --vaults and --months of a run.
MaxVaults == 2
MaxMonths == 2

\* PhotoAnalyzer.analyze_walkthrough_local: every room is looked up by its
\* category and density in room_scope_lookup.json (analyze_room_local; the
\* table holds no actual_data, so nothing is blended), and the totals are the
\* sums of the looked up counts, raised by 20 % and rounded.
analyze_walkthrough_local(rooms, default_density) ==
    LET analyze_room_local(room_category, density) ==
            LET lookup == DictGet(_load_baselines, room_category,
                                  DictGet(_load_baselines, "other", EmptyDict))
                typical_tags == DictGet(lookup, "typical_tags", EmptyDict)
                typical_boxes == DictGet(lookup, "typical_boxes", EmptyDict)
            IN  [estimated_tags |->
                     DictGet(typical_tags, density, DictGet(typical_tags, "medium", 5)),
                 estimated_boxes |->
                     DictGet(typical_boxes, density, DictGet(typical_boxes, "medium", 8))]
        analysis == [k \in 1..Len(rooms) |->
                        analyze_room_local(DictGet(rooms[k], "room_category", "other"),
                                           DictGet(rooms[k], "density", default_density))]
        raw_tags == SumOver([k \in 1..Len(rooms) |-> analysis[k].estimated_tags], Len(rooms))
        raw_boxes == SumOver([k \in 1..Len(rooms) |-> analysis[k].estimated_boxes], Len(rooms))
    IN  [rooms |-> analysis,
         total_tags |-> (12 * raw_tags + 5) \div 10,
         total_boxes |-> (12 * raw_boxes + 5) \div 10,
         total_rooms |-> Len(rooms)]

\* generate_5phase_estimate(walkthrough, storage_vaults=..., apply_corrections=False):
\* the counts are the totals of the walkthrough, storage_months is
\* storage_vaults * storage_duration_months, a TypeError when storage_vaults is
\* None, and the dictionary returned has the keys below.
generate_5phase_estimate(walkthrough, storage_vaults, storage_duration_months) ==
    IF storage_vaults = <<>>
    THEN [status |-> "raised", exception |-> "TypeError"]
    ELSE [status |-> "returned",
          est |-> [rooms |-> walkthrough.total_rooms,
                   tags |-> walkthrough.total_tags,
                   boxes |-> walkthrough.total_boxes,
                   lg_boxes |-> IF walkthrough.total_boxes > 30
                                THEN walkthrough.total_boxes \div 15 ELSE 0,
                   xl_boxes |-> IF walkthrough.total_boxes > 80
                                THEN walkthrough.total_boxes \div 40 ELSE 0,
                   storage_months |-> storage_vaults[1] * storage_duration_months]]

\* main: normalize_rooms, apply_box_prediction, print_rooms,
\* analyze_from_rooms_json, generate_5phase_estimate and the summary, whose
\* line "Storage:" reads est['storage_vaults'].
main(args) ==
    LET normalize(r) ==
            LET entry == [room_name |-> DictGet(r, "room_name", "Unknown"),
                          room_category |-> DictGet(r, "room_category", "other"),
                          density |-> DictGet(r, "density", "medium")]
                tags == IF "override_tags" \in DOMAIN r THEN <<r.override_tags>>
                        ELSE IF "estimated_tags" \in DOMAIN r THEN <<r.estimated_tags>>
                        ELSE <<>>
                boxes == IF "override_boxes" \in DOMAIN r THEN <<r.override_boxes>>
                         ELSE IF "estimated_boxes" \in DOMAIN r THEN <<r.estimated_boxes>>
                         ELSE <<>>
                tagged == IF tags = <<>> THEN entry ELSE DictSet(entry, "override_tags", tags[1])
            IN  IF boxes = <<>> THEN tagged ELSE DictSet(tagged, "override_boxes", boxes[1])
        rooms == apply_box_prediction([k \in 1..Len(args.rooms) |-> normalize(args.rooms[k])]).rooms
        walkthrough == analyze_walkthrough_local(rooms, "medium")
        result == generate_5phase_estimate(walkthrough, args.vaults, args.months)
    IN  IF result.status = "raised"
        THEN [status |-> "raised", exception |-> result.exception,
              rooms |-> rooms, walkthrough |-> walkthrough]
        ELSE IF "storage_vaults" \notin DOMAIN result.est
        THEN [status |-> "raised", exception |-> "KeyError",
              rooms |-> rooms, walkthrough |-> walkthrough, est |-> result.est]
        ELSE [status |-> "returned", rooms |-> rooms, walkthrough |-> walkthrough,
              est |-> result.est, printed_vaults |-> result.est.storage_vaults]

InitMain ==
    /\ \E n \in 0..MaxRooms, vaults \in 0..(MaxVaults + 1), months \in 1..MaxMonths :
           \E rooms \in [1..n -> OtherRooms \cup
                                    {[room_name |-> <<"K", "i", "t", "c", "h", "e", "n">>,
                                      room_category |-> "kitchen", density |-> "heavy",
                                      estimated_tags |-> 2, estimated_boxes |-> 30]}] :
               main_in = [rooms |-> rooms,
                          vaults |-> IF vaults > MaxVaults THEN <<>> ELSE <<vaults>>,
                          months |-> months]
    /\ main_out = NoResult
    /\ CartageIdle /\ BoxIdle /\ VaultIdle /\ PadIdle /\ AdjustIdle /\ PriceIdle /\ BuildIdle
    /\ ScopeIdle /\ PipelineIdle /\ GeminiIdle

CallMain ==
    /\ main_in # NoResult
    /\ main_out = NoResult
    /\ main_out' = main(main_in)
    /\ UNCHANGED <<main_in, cartage_in, cartage_out, box_in, box_out, vault_in, vault_out,
                   pad_in, pad_out, adjust_in, adjust_out, price_in, price_out,
                   build_in, build_out, scope_in, scope_out, pipeline, gemini>>

NextMain == CallMain

SpecMain == InitMain /\ [][NextMain]_vars

\* The components together.
Init ==
    \/ InitCartage \/ InitBox \/ InitVault \/ InitPad \/ InitAdjust \/ InitPrice \/ InitBuild
    \/ InitScope \/ InitPipeline \/ InitGemini \/ InitMain
Next ==
    \/ NextCartage \/ NextBox \/ NextVault \/ NextPad \/ NextAdjust \/ NextPrice \/ NextBuild
    \/ NextScope \/ NextPipeline \/ NextGemini \/ NextMain
Spec == Init /\ [][Next]_vars

(* ------------------------------------------------------------------ *)
(* Claims about calculate_cartage                                       *)
(* ------------------------------------------------------------------ *)

CartageReturned == cartage_out # NoResult

NonNegativeCartageInput ==
    /\ cartage_in.drive_time_min >= 0 /\ cartage_in.truck_loads >= 0
    /\ cartage_in.crew_size >= 0 /\ cartage_in.carry_time_min >= 0
    /\ cartage_in.tag_count >= 0 /\ cartage_in.box_count >= 0

ComponentSum == cartage_out.tag_hours + cartage_out.box_hours + cartage_out.crew_hours

\* C1 (as stated): for non-negative inputs the returned total_hours equals exactly
\* the sum of the returned tag_hours, box_hours and crew_hours.
C1_TotalIsExactSum ==
    (CartageReturned /\ NonNegativeCartageInput) =>
        cartage_out.total_hours = ComponentSum

\* C1 (amended): for non-negative inputs the returned total_hours is within one
\* unit of the fourth decimal (0.0001 h) of the sum of the returned tag_hours,
\* box_hours and crew_hours, the total being rounded separately from its components.
C1_TotalWithinOneUnit ==
    (CartageReturned /\ NonNegativeCartageInput) =>
        Abs(cartage_out.total_hours - ComponentSum) <= 1

\* A call with non-negative inputs whose total differs from the sum of its parts.
C1_Witness ==
    /\ CartageReturned /\ NonNegativeCartageInput
    /\ cartage_out.crew_hours > 0
    /\ Abs(cartage_out.total_hours - ComponentSum) = 1

SplitSum == cartage_out.cps_lab_hours + cartage_out.cps_labs_hours

\* Supervisor hours are total_hours / crew_size up to the rounding of both values:
\* |labs * crew - total| <= crew/2 + 1/2.
SupervisorIsTotalOverCrew ==
    2 * Abs(cartage_out.cps_labs_hours * cartage_in.crew_size - cartage_out.total_hours)
        <= cartage_in.crew_size + 1

\* General labor hours are total_hours - total_hours / crew_size up to rounding:
\* |lab * crew - total * (crew - 1)| <= crew/2 + (crew - 1)/2.
GeneralIsTotalMinusSupervisor ==
    2 * Abs(cartage_out.cps_lab_hours * cartage_in.crew_size
            - cartage_out.total_hours * (cartage_in.crew_size - 1))
        <= 2 * cartage_in.crew_size - 1

ZeroCrewSplit ==
    cartage_in.crew_size = 0 =>
        /\ cartage_out.cps_labs_hours = 0
        /\ cartage_out.cps_lab_hours = cartage_out.total_hours

\* C2 (as stated): supervisor hours = total_hours / crew_size and general labor =
\* total_hours - supervisor hours when crew_size > 0, supervisor = 0 and general
\* labor = total_hours when crew_size = 0, and in both cases the returned general
\* labor + supervisor hours equal the returned total_hours.
C2_SplitSumsToTotal ==
    (CartageReturned /\ cartage_in.crew_size >= 0) =>
        /\ cartage_in.crew_size > 0 =>
              SupervisorIsTotalOverCrew /\ GeneralIsTotalMinusSupervisor
        /\ ZeroCrewSplit
        /\ SplitSum = cartage_out.total_hours

\* C2 (amended): the same split, each value rounded to 4 decimals on its own, so that
\* for crew_size > 0 general labor + supervisor equal total_hours to within 0.0001 h;
\* for crew_size = 0 supervisor = 0 and general labor = total_hours exactly.
C2_SplitWithinOneUnit ==
    (CartageReturned /\ cartage_in.crew_size >= 0) =>
        /\ cartage_in.crew_size > 0 =>
              /\ SupervisorIsTotalOverCrew /\ GeneralIsTotalMinusSupervisor
              /\ Abs(SplitSum - cartage_out.total_hours) <= 1
        /\ ZeroCrewSplit

\* A crew of several people whose two billing buckets do not add up to the total.
C2_Witness ==
    /\ CartageReturned
    /\ cartage_in.crew_size > 1
    /\ cartage_out.cps_labs_hours > 0
    /\ Abs(SplitSum - cartage_out.total_hours) = 1

\* x is an integer nearest to num/den.
IsNearest(x, num, den) == 2 * Abs(x * den - num) <= den

\* C3: for non-negative inputs tag_hours = (pad_wrap + load_tag + unload_tag +
\* move_tag_to_storage + carry_time) * tag_count / 60, box_hours = ((load_3box +
\* unload_3box + move_3box_to_storage + carry_time) / 3) * box_count / 60 and
\* crew_hours = drive_time * 2 * crew_size * truck_loads / 60 (each rounded to 4
\* decimals), with the standards 8/3/3/5 and 3/2/6 unless overridden, and a TAG or
\* box count of zero gives zero hours for that component.
C3_ComponentFormulas ==
    (CartageReturned /\ NonNegativeCartageInput) =>
        LET i == cartage_in
            st == IF i.standards = NoStandards
                  THEN [pad_wrap_tag |-> 8, load_tag |-> 3, unload_tag |-> 3,
                        move_tag_to_storage |-> 5, load_3box |-> 3, unload_3box |-> 2,
                        move_3box_to_storage |-> 6]
                  ELSE i.standards
            o == cartage_out
        IN  /\ IsNearest(o.tag_hours,
                   10000 * ((st.pad_wrap_tag + st.load_tag + st.unload_tag
                             + st.move_tag_to_storage + i.carry_time_min) * i.tag_count),
                   60)
            /\ IsNearest(o.box_hours,
                   10000 * ((st.load_3box + st.unload_3box + st.move_3box_to_storage
                             + i.carry_time_min) * i.box_count),
                   180)
            /\ IsNearest(o.crew_hours,
                   10000 * (i.drive_time_min * 2 * i.crew_size * i.truck_loads), 60)
            /\ i.tag_count = 0 => o.tag_hours = 0
            /\ i.box_count = 0 => o.box_hours = 0

\* The Cash estimate of the validation tests: 79.75 / 23.3333 / 35.2 hours.
C3_Witness ==
    /\ CartageReturned
    /\ cartage_in.tag_count = 165 /\ cartage_in.box_count = 200
    /\ cartage_out.tag_hours = 797500
    /\ cartage_out.box_hours = 233333
    /\ cartage_out.crew_hours = 352000

\* C4: a call with a negative crew_size never returns a normal CartageResult.
C4_NegativeCrewFailsFast ==
    cartage_in.crew_size < 0 => ~CartageReturned

(* ------------------------------------------------------------------ *)
(* Claims about apply_box_prediction                                    *)
(* ------------------------------------------------------------------ *)

BoxReturned == box_out # NoResult

BedroomCategories == {"bedroom", "bedroom_primary", "bedroom_guest", "bedroom_kids"}

RoomIndexes == 1..Len(box_in)
VisualBoxes(i) == GetCount(box_in[i], "override_boxes")
OutputBoxes(i) == GetCount(box_out.rooms[i], "override_boxes")
CategoryOf(i) == DictGet(box_in[i], "room_category", "other")

\* C5: every room's output box count is at least its input visual box count
\* (absent counted as 0), and no other field of any room (name, category, density,
\* TAG count) is changed.
C5_BoxesNeverDecrease ==
    BoxReturned =>
        /\ Len(box_out.rooms) = Len(box_in)
        /\ \A i \in RoomIndexes :
              /\ OutputBoxes(i) >= VisualBoxes(i)
              /\ DOMAIN box_out.rooms[i] \subseteq (DOMAIN box_in[i]) \cup {"override_boxes"}
              /\ \A k \in (DOMAIN box_in[i]) \ {"override_boxes"} :
                    k \in DOMAIN box_out.rooms[i] /\ box_out.rooms[i][k] = box_in[i][k]

\* A room seen with more boxes than the prediction keeps its count while the room
\* next to it is upgraded.
C5_Witness ==
    /\ BoxReturned /\ box_out.predicted_rooms
    /\ \E i \in RoomIndexes :
          /\ VisualBoxes(i) > box_out.locals[i].predicted
          /\ OutputBoxes(i) = VisualBoxes(i)
    /\ \E i \in RoomIndexes : OutputBoxes(i) > VisualBoxes(i)

\* The TAG density ratio total visual TAGs / baseline TAG sum, as its two terms.
VisualTagTotal ==
    SumOver([i \in RoomIndexes |-> GetCount(box_in[i], "override_tags")], Len(box_in))
BaselineTagTotal ==
    SumOver([i \in RoomIndexes |->
                _lookup_tags(_load_baselines, CategoryOf(i),
                             DictGet(box_in[i], "density", "medium"))],
            Len(box_in))

RatioAtMostOneAndAHalf == BaselineTagTotal > 0 /\ 2 * VisualTagTotal <= 3 * BaselineTagTotal

\* C6: whenever the TAG density ratio is at most 1.5, every room's effective density
\* is its stated density, and the box lookup, the closet allocation and the pantry
\* allocation of every room are taken at the stated density tier.
C6_NoBumpAtOrBelowThreshold ==
    (BoxReturned /\ RatioAtMostOneAndAHalf) =>
        \A i \in 1..Len(box_out.locals) :
            LET stated == DictGet(box_in[i], "density", "medium")
                l == box_out.locals[i]
            IN  /\ l.effective_density = stated
                /\ l.closet_density = stated
                /\ l.lookup_boxes <= _lookup_boxes(_load_baselines, CategoryOf(i), stated)
                /\ l.pantry_bonus \in {0, DictGet(PANTRY_ALLOCATION, stated, 5)}
                /\ l.closet_bonus \in
                      {0} \cup { DictGet(CLOSET_ALLOCATION[c], stated, 6) :
                                   c \in DOMAIN CLOSET_ALLOCATION }

\* A house with more TAGs than its baseline, but not more than 1.5 times as many,
\* whose bedroom gets a closet allocation.
C6_Witness ==
    /\ BoxReturned /\ box_out.predicted_rooms /\ RatioAtMostOneAndAHalf
    /\ VisualTagTotal > BaselineTagTotal
    /\ \E i \in RoomIndexes :
          /\ box_out.locals[i].closet_bonus > 0
          /\ DictGet(box_in[i], "density", "medium") = "light"

HasClosetRoom == \E i \in RoomIndexes : CategoryOf(i) = "closet"

\* C7: if any room has category 'closet', no bedroom-category room receives a closet
\* bonus: its closet bonus is 0 and its output box count is its visual count or the
\* lookup value (less the deducted closet portion), without any closet allocation.
C7_NoClosetBonusWithExplicitCloset ==
    (BoxReturned /\ HasClosetRoom) =>
        \A i \in 1..Len(box_out.locals) :
            CategoryOf(i) \in BedroomCategories =>
                LET l == box_out.locals[i]
                IN  /\ l.closet_bonus = 0
                    /\ l.predicted = l.lookup_boxes
                    /\ l.lookup_boxes <=
                          _lookup_boxes(_load_baselines, CategoryOf(i), l.effective_density)
                    /\ OutputBoxes(i) \in {VisualBoxes(i), l.lookup_boxes}

\* A bedroom upgraded to its lookup value in a house with an explicit closet.
C7_Witness ==
    /\ BoxReturned /\ box_out.predicted_rooms /\ HasClosetRoom
    /\ \E i \in RoomIndexes :
          /\ CategoryOf(i) \in BedroomCategories
          /\ box_out.locals[i].should_upgrade
          /\ OutputBoxes(i) > VisualBoxes(i)

BonusOf(i) == box_out.locals[i].closet_bonus + box_out.locals[i].pantry_bonus

VaultReturned == vault_out # NoResult

\* c = ceil(n / d), for n >= 0 and d > 0.
IsCeil(c, n, d) == d * (c - 1) < n /\ n <= d * c

ComponentEstimate == vault_out.box_vaults + vault_out.tag_vaults

C10_MethodWellDefined ==
    VaultReturned =>
        /\ (vault_in.tag_count = 0 /\ vault_in.box_count = 0) => vault_out.total = 1
        /\ ComponentEstimate <= vault_out.capacity_vaults => vault_out.method = "component"
        /\ ComponentEstimate > vault_out.capacity_vaults => vault_out.method = "capacity"

\* The empty job: both estimates are 0, a tie, and the floor of 1 applies.
C10_Witness ==
    /\ VaultReturned
    /\ vault_in.tag_count = 0 /\ vault_in.box_count = 0
    /\ ComponentEstimate = vault_out.capacity_vaults
    /\ vault_out.total = 1
    /\ vault_out.method = "component"

(* ------------------------------------------------------------------ *)
(* Claims about _adaptive_pad_count                                     *)
(* ------------------------------------------------------------------ *)
PadReturned == pad_out # NoResult

\* C11: the ratio is exactly 0.645 up to 31 TAGs, exactly 1.226 from 84 TAGs
\* on, the line through (31, 0.645) and (84, 1.226) in between, and never above
\* 1.25; the result is tag_count * ratio rounded to the nearest integer, and it
\* is at least 1 for every tag_count, 1 for tag_count <= 0.
C11_PadRatioAndCount ==
    PadReturned =>
        LET t == pad_in.tag_count
            r == pad_out.ratio
        IN  /\ pad_out.count >= 1
            /\ t <= 0 => pad_out.count = 1
            /\ t > 0 =>
                /\ t <= 31 => r * 1000 = 645 * RatioDen
                /\ t >= 84 => r * 1000 = 1226 * RatioDen
                /\ (31 < t /\ t < 84) =>
                      r * 1000 =
                          (645 * (84 - 31) + (t - 31) * (1226 - 645))
                              * (RatioDen \div (84 - 31))
                /\ r * 100 <= 125 * RatioDen
                /\ IsNearest(pad_out.count, t * r, RatioDen)

\* 200 TAGs, far above the upper anchor, get 200 * 1.226 = 245.2 -> 245 pads.
C11_Witness ==
    PadReturned /\ pad_in.tag_count = 200 /\ pad_out.count = 245

(* ------------------------------------------------------------------ *)
(* Claims about EstimateAdjuster.adjust                                 *)
(* ------------------------------------------------------------------ *)
AdjustReturned == adjust_out # NoResult

\* The entry of a metric in the factor table and its two subsets.
FactorData(name) == DictGet(adjust_in.factors, name, EmptyDict)
PostStats(name) == DictGet(FactorData(name), "post_acquisition", EmptyDict)
AllStats(name) == DictGet(FactorData(name), "all_estimates", EmptyDict)
PostN(name) == DictGet(PostStats(name), "n", 0)
AllN(name) == DictGet(AllStats(name), "n", 0)
\* The factor adjust selected for the metric and the values it returned for it.
Selected(name) == adjust_out.factors[MetricOf[name]]
Returned(name) == adjust_out[MetricOf[name]]

\* C12 as stated: for a post-acquisition job and every metric with at least 3
\* recent-era samples, the adjusted value is exactly raw * recent-era median.
C12_AdjustedIsExactProduct ==
    (AdjustReturned /\ adjust_in.is_post_acquisition) =>
        \A name \in DOMAIN MetricOf :
            PostN(name) >= 3 =>
                Returned(name).adjusted * 1000 = Returned(name).raw * PostStats(name).median

\* C12 as amended: for a post-acquisition job and every metric with at least 3
\* recent-era samples, the factor used is the recent-era median and the adjusted
\* value is raw * recent-era median rounded to the precision of the metric (whole
\* TAGs and boxes, tenths of an hour, cents).
C12_AdjustedIsRoundedRecentProduct ==
    (AdjustReturned /\ adjust_in.is_post_acquisition) =>
        \A name \in DOMAIN MetricOf :
            PostN(name) >= 3 =>
                /\ Selected(name).value = PostStats(name).median
                /\ IsNearest(Returned(name).adjusted,
                             Returned(name).raw * PostStats(name).median, 1000)

\* 3 TAGs with a recent-era median of 1.234 over 3 jobs and an all-data median of
\* 0.9: 3 * 1.234 = 3.702 gives 4, where the all-data median would give 3.
C12_Witness ==
    /\ AdjustReturned /\ adjust_in.is_post_acquisition
    /\ PostN("tag_multiplier") = 3
    /\ PostStats("tag_multiplier").median = 1234
    /\ AllN("tag_multiplier") = 3
    /\ AllStats("tag_multiplier").median = 900
    /\ adjust_in.raw.tags = 3
    /\ adjust_out.tags.adjusted = 4

\* C13: for a post-acquisition job, a metric with 1 or 2 recent-era samples uses
\* the multiplier 0.6 * recent-era median + 0.4 * all-data median; with no
\* recent-era sample it uses the all-data median alone; with no data at all it
\* uses the identity factor (multiplier 1.0, std 0.3, confidence 0.5).
C13_BlendBelowThreeSamples ==
    (AdjustReturned /\ adjust_in.is_post_acquisition) =>
        \A name \in DOMAIN MetricOf :
            /\ (PostN(name) \in {1, 2}) =>
                   Selected(name).value * 10 =
                       6 * PostStats(name).median + 4 * AllStats(name).median
            /\ (PostN(name) = 0 /\ AllN(name) > 0) =>
                   Selected(name).value = AllStats(name).median
            /\ (PostN(name) = 0 /\ AllN(name) = 0) =>
                   Selected(name) = [value |-> 1000, std |-> 300, confidence |-> 50]

\* C14: for each of tags, boxes, labor and RCV, low is raw * max(0.5, multiplier
\* - std) at the precision of the metric and floored at 0, high is raw *
\* (multiplier + std) at that precision, with the multiplier and std of the
\* factor selected for the metric; low is never negative.
C14_BandFormulas ==
    AdjustReturned =>
        \A name \in DOMAIN MetricOf :
            LET value == Selected(name).value
                std == Selected(name).std
                raw == Returned(name).raw
                low == raw * Max(500, value - std)
            IN  /\ Returned(name).low >= 0
                /\ IF low < 0
                   THEN Returned(name).low = 0
                   ELSE IsNearest(Returned(name).low, low, 1000)
                /\ IsNearest(Returned(name).high, raw * (value + std), 1000)

\* 2 boxes with multiplier 0.4 and std 0.15: the multiplier less std is 0.25, so
\* low is 2 * 0.5 = 1 and high is 2 * 0.55 = 1.1 -> 1.
C14_Witness ==
    /\ AdjustReturned
    /\ adjust_out.factors.boxes.value = 400
    /\ adjust_out.factors.boxes.std = 150
    /\ adjust_in.raw.boxes = 2
    /\ adjust_out.boxes.low = 1
    /\ adjust_out.boxes.high = 1

(* ------------------------------------------------------------------ *)
(* Claims about PricingEngine                                           *)
(* ------------------------------------------------------------------ *)
FindPriceReturned == price_out # NoResult /\ price_in.call.method = "find_price"
EstimateReturned == price_out # NoResult /\ price_in.call.method # "find_price"

\* The key of a description, the keys of the table, and the stored keys that
\* score above 0.6 against a description.
Key(desc) == Lower(Strip(desc))
Lookup == price_in.call.self.pricing_lookup
HasExact(desc) == \E k \in 1..Len(Lookup) : Lookup[k].key = Key(desc)
ScoresAbove(desc) ==
    {k \in 1..Len(Lookup) :
        5 * overlap_score(Key(desc), Lookup[k].key).overlap
            > 3 * overlap_score(Key(desc), Lookup[k].key).total}
HasPartial(desc) == ScoresAbove(desc) # {}
HighestScore(desc, k) ==
    \A j \in 1..Len(Lookup) :
        overlap_score(Key(desc), Lookup[j].key).overlap
                * overlap_score(Key(desc), Lookup[k].key).total
            <= overlap_score(Key(desc), Lookup[k].key).overlap
                * overlap_score(Key(desc), Lookup[j].key).total

\* C15: a description that equals a reference description after trimming and
\* lower-casing resolves to an entry with that key through the exact-match
\* path, whatever the other entries score.
C15_ExactMatchWins ==
    (FindPriceReturned /\ HasExact(price_in.desc)) =>
        /\ price_out.ref.via = "exact"
        /\ Key(price_out.ref.row.desc) = Key(price_in.desc)

\* ' MED BOX' resolves to the row 'Med box' (4.00) although the row
\* 'Med  box' (3.00), which has the same words, comes first in the table.
C15_Witness ==
    /\ FindPriceReturned
    /\ price_in.desc = <<" ", "M", "E", "D", " ", "B", "O", "X">>
    /\ price_in.call.self.pricing_lookup[1].row.unit_cost_weighted_median = 300
    /\ overlap_score(Key(price_in.desc), price_in.call.self.pricing_lookup[1].key)
           = [overlap |-> 2, total |-> 2]
    /\ price_out.ref.via = "exact"
    /\ price_out.ref.row.unit_cost_weighted_median = 400

\* The items passed to the pricing call, the lines returned, and what find_price
\* answers for the i-th item.
ItemIndexes == 1..Len(price_in.items)
LineOf(i) == price_out.line_items[i]
RefOf(i) == find_price(price_in.call.self, price_in.items[i].desc)
Unmatched(desc) == ~HasExact(desc) /\ ~HasPartial(desc)
ReturnedAsNotFound(i) ==
    /\ LineOf(i).applied_unit_cost = 0
    /\ LineOf(i).rcv = 0
    /\ LineOf(i).cost_source = "not_found"
    /\ LineOf(i).is_flagged
    /\ \E k \in 1..Len(price_out.missing_items) :
           price_out.missing_items[k] = price_in.items[i].desc

\* What find_price answers for a description without an exact match: the entry
\* with the highest score if that score is above 0.6, nothing otherwise.
PartialMatchRule ==
    (FindPriceReturned /\ ~HasExact(price_in.desc)) =>
        IF HasPartial(price_in.desc)
        THEN /\ price_out.ref.via = "partial"
             /\ \E k \in ScoresAbove(price_in.desc) :
                    /\ HighestScore(price_in.desc, k)
                    /\ price_out.ref.row = Lookup[k].row
        ELSE price_out.ref.via = "none"

\* C16 as stated: without an exact match the entry with the highest word-overlap
\* score is accepted only if the score is above 0.6; every other item comes back
\* as a line with unit cost 0, RCV 0, cost source 'not_found', flagged and listed
\* in missing_items; as many lines are returned as items were passed.
C16_UnmatchedIsNotFound ==
    /\ PartialMatchRule
    /\ EstimateReturned =>
        /\ Len(price_out.line_items) = Len(price_in.items)
        /\ \A i \in ItemIndexes :
               Unmatched(price_in.items[i].desc) => ReturnedAsNotFound(i)

\* C16 as amended: the same, for the unmatched items that carry no manual unit
\* cost; an unmatched item with a manual unit cost comes back with that cost
\* applied and the cost source 'override', and is not listed in missing_items.
C16_UnmatchedWithoutCostIsNotFound ==
    /\ PartialMatchRule
    /\ EstimateReturned =>
        /\ Len(price_out.line_items) = Len(price_in.items)
        /\ \A i \in ItemIndexes :
               Unmatched(price_in.items[i].desc) =>
                   IF price_in.items[i].unit_cost = <<>>
                   THEN ReturnedAsNotFound(i)
                   ELSE /\ LineOf(i).applied_unit_cost = price_in.items[i].unit_cost[1]
                        /\ LineOf(i).cost_source = "override"

\* 'Haul debris load x y' shares 3 of 5 words with 'Haul debris load': the score
\* is exactly 0.6 and the item comes back as not found, after a first line.
C16_Witness ==
    /\ EstimateReturned
    /\ Len(price_in.items) = 2
    /\ Len(price_out.line_items) = 2
    /\ \E k \in 1..Len(Lookup) :
           overlap_score(Key(price_in.items[1].desc), Lookup[k].key)
               = [overlap |-> 3, total |-> 5]
    /\ price_in.items[1].unit_cost = <<>>
    /\ ReturnedAsNotFound(1)

\* C17: subtotal_rcv is the sum of the rcv of the returned lines, and the rcv of
\* a line is its applied unit cost times its quantity rounded to the cent.
C17_SubtotalIsSumOfLines ==
    EstimateReturned =>
        /\ price_out.subtotal_rcv =
               SumOver([i \in 1..Len(price_out.line_items) |-> LineOf(i).rcv],
                       Len(price_out.line_items))
        /\ \A i \in 1..Len(price_out.line_items) :
               IsNearest(LineOf(i).rcv, LineOf(i).applied_unit_cost * LineOf(i).qty, 10)

\* 1.5 boxes at 4.00 and 3.3 hours at 79.04 (260.832, rounded to 260.83): the
\* subtotal is 266.83.
C17_Witness ==
    /\ EstimateReturned
    /\ Len(price_out.line_items) = 2
    /\ LineOf(1).rcv = 600
    /\ LineOf(2).applied_unit_cost = 7904 /\ LineOf(2).qty = 33 /\ LineOf(2).rcv = 26083
    /\ price_out.subtotal_rcv = 26683

\* C18: an item with a manual unit cost and a reference median above 0 is
\* flagged for deviation if and only if |cost - median| / median > 0.20, and the
\* manual cost is the applied unit cost (items of quantity 0, whose flag reason
\* is replaced, left aside).
C18_FlaggedIffAboveTwentyPercent ==
    EstimateReturned =>
        \A i \in ItemIndexes :
            (/\ price_in.items[i].unit_cost # <<>>
             /\ price_in.items[i].qty # 0
             /\ RefOf(i).via # "none"
             /\ RefOf(i).row.unit_cost_weighted_median > 0) =>
                LET cost == price_in.items[i].unit_cost[1]
                    median == RefOf(i).row.unit_cost_weighted_median
                IN  /\ LineOf(i).applied_unit_cost = cost
                    /\ (LineOf(i).is_flagged /\ LineOf(i).flag_reason = "deviation")
                           <=> (100 * Abs(cost - median) > 20 * median)

\* C19: in price_5phase_estimate a box item of the phase 'Pack back' without a
\* manual cost and with a reference price gets the unit cost median * (1 -
\* discount) rounded to the cent, its quantity unchanged; an item that is not a
\* box item or that is in another phase is priced as price_line_item prices it.
C19_DiscountIsPriceOverride ==
    (EstimateReturned /\ price_in.call.method = "price_5phase_estimate") =>
        \A i \in ItemIndexes :
            LET item == price_in.items[i]
                packback == DictGet(item, "phase", "") = "Pack back"
                box == Contains(Lower(item.desc), <<"b", "o", "x">>)
            IN  /\ (packback /\ box /\ item.unit_cost = <<>> /\ RefOf(i).via # "none") =>
                       /\ IsNearest(LineOf(i).applied_unit_cost,
                                    RefOf(i).row.unit_cost_weighted_median
                                        * (100 - price_in.call.packback_box_discount), 100)
                       /\ LineOf(i).qty = item.qty
                /\ (~packback \/ ~box) => LineOf(i) \in price_line_item(price_in.call.self, item)

\* 1.5 'Med box' in the phase 'Pack back' at the default discount: 4.00 * 0.86 =
\* 3.44 a box, still 1.5 boxes, 5.16 in all.
C19_Witness ==
    /\ EstimateReturned /\ price_in.call.method = "price_5phase_estimate"
    /\ price_in.call.packback_box_discount = 14
    /\ Len(price_in.items) >= 1
    /\ price_in.items[1].desc = <<"M", "e", "d", " ", "b", "o", "x">>
    /\ price_in.items[1].phase = "Pack back"
    /\ price_in.items[1].unit_cost = <<>>
    /\ price_in.items[1].qty = 15
    /\ LineOf(1).applied_unit_cost = 344
    /\ LineOf(1).qty = 15
    /\ LineOf(1).rcv = 516

(* ------------------------------------------------------------------ *)
(* Claims about build_5phase_estimate                                   *)
(* ------------------------------------------------------------------ *)
BuildReturned == build_out # NoResult

\* The descriptions of the box lines (medium, large, extra-large) and of the
\* TAG line.
BoxAndTagLines ==
    {"Eval. pack & invent. misc items - per Med box-high density",
     "Eval. pack & invent. misc items - per Lg box-high density",
     "Eval. pack & invent. misc items - per Xlg box-high density",
     "Evaluate, tag, & inventory miscellaneous - per item"}

\* C20: every box line and the TAG line of the phase 'Packout' has a line of the
\* same description and the same quantity in the phase 'Pack back'.
C20_PackBackRepeatsPackout ==
    BuildReturned =>
        \A i \in 1..Len(build_out.items) :
            (build_out.items[i].phase = "Packout"
                 /\ build_out.items[i].desc \in BoxAndTagLines) =>
                \E j \in 1..Len(build_out.items) :
                    /\ build_out.items[j].phase = "Pack back"
                    /\ build_out.items[j].desc = build_out.items[i].desc
                    /\ build_out.items[j].qty = build_out.items[i].qty

(* ------------------------------------------------------------------ *)
(* Claims about the order of the bands of EstimateAdjuster.adjust       *)
(* ------------------------------------------------------------------ *)
\* C30: for every factor table and every raw value that is not negative, the
\* returned values of each of tags, boxes, labor hours and RCV are ordered:
\* low <= adjusted <= high.
C30_BandsOrdered ==
    AdjustReturned =>
        \A m \in {"tags", "boxes", "labor_hours", "rcv"} :
            adjust_in.raw[m] >= 0 =>
                /\ adjust_out[m].low <= adjust_out[m].adjusted
                /\ adjust_out[m].adjusted <= adjust_out[m].high

(* ------------------------------------------------------------------ *)
(* Claims about the trust rules and the tiers of apply_box_prediction   *)
(* ------------------------------------------------------------------ *)
RatioAboveOneAndAHalf == BaselineTagTotal > 0 /\ 2 * VisualTagTotal > 3 * BaselineTagTotal
RatioAboveOneAndThreeQuarters ==
    BaselineTagTotal > 0 /\ 4 * VisualTagTotal > 7 * BaselineTagTotal
BumpFired == 2 * VisualTagTotal > 3 * Max(BaselineTagTotal, 1)

\* The rule of the claim for the i-th room, from its category, its visual box
\* count and the values predicted for it.
TrustRule(i) ==
    LET visual == VisualBoxes(i)
        l == box_out.locals[i]
    IN  IF CategoryOf(i) \in BedroomCategories
                \cup {"kitchen", "office", "bathroom", "closet", "garage", "basement"}
        THEN 2 * visual < l.predicted
        ELSE IF CategoryOf(i) \in
                    {"living_room", "dining_room", "hallway", "exterior", "laundry"}
        THEN \/ BumpFired /\ 5 * visual < 2 * l.lookup_boxes
             \/ visual = 0 /\ l.predicted > 0
        ELSE 5 * visual < 2 * l.predicted

TierUp(density) ==
    CASE density = "light" -> "medium"
      [] density = "medium" -> "heavy"
      [] OTHER -> "very_heavy"

\* C28: when the TAG density ratio exceeds 1.5 the effective density of every
\* room is its stated density one tier up, capped at very_heavy; when it also
\* exceeds 1.75 the closet allocation of a bedroom in a house without a closet
\* room is read one tier above the room's effective density, capped at
\* very_heavy, while the box lookup and the pantry allocation are read at the
\* effective density.
C28_TiersMoveUpOnce ==
    (BoxReturned /\ RatioAboveOneAndAHalf) =>
        \A i \in 1..Len(box_out.locals) :
            LET l == box_out.locals[i]
                effective == TierUp(DictGet(box_in[i], "density", "medium"))
            IN  /\ l.effective_density = effective
                /\ (~HasClosetRoom \/ CategoryOf(i) \notin BedroomCategories) =>
                       l.lookup_boxes = _lookup_boxes(_load_baselines, CategoryOf(i), effective)
                /\ l.pantry_bonus \in {0, PANTRY_ALLOCATION[effective]}
                /\ (/\ RatioAboveOneAndThreeQuarters
                    /\ ~HasClosetRoom
                    /\ CategoryOf(i) \in BedroomCategories) =>
                       /\ l.closet_density = TierUp(effective)
                       /\ l.closet_bonus \in
                              {CLOSET_ALLOCATION[c][TierUp(effective)] :
                                   c \in {CategoryOf(i), "bedroom_primary"}}

\* A light bedroom in a house with 2.5 times its baseline TAGs: the room is
\* read at medium and its closet at heavy (15 boxes).
C28_Witness ==
    /\ BoxReturned /\ RatioAboveOneAndThreeQuarters /\ ~HasClosetRoom
    /\ CategoryOf(1) = "bedroom"
    /\ box_in[1].density = "light"
    /\ box_out.locals[1].effective_density = "medium"
    /\ box_out.locals[1].closet_density = "heavy"
    /\ box_out.locals[1].closet_bonus = 15

(* ------------------------------------------------------------------ *)
(* Claims about ScopeChecker.check                                      *)
(* ------------------------------------------------------------------ *)
ScopeReturned == scope_out # NoResult

\* The joined text of a draft, the elements missing from it by severity, and
\* its lines of quantity 0 (a line without quantity is read as 0).
TextOf(items) ==
    desc_text([i \in 1..Len(items) |-> str_lower(DictGet(items[i], "desc", ""))])
MissingElements(items, severity) ==
    LET text == TextOf(items)
    IN  {k \in 1..Len(REQUIRED_ELEMENTS) :
            /\ REQUIRED_ELEMENTS[k].severity = severity
            /\ ~found(REQUIRED_ELEMENTS[k].patterns, text)}
ZeroQuantityLines(items) == {i \in 1..Len(items) : DictGet(items[i], "qty", 0) = 0}
FlagsOf(result, severity, category) ==
    {k \in 1..Len(result.flags) :
        result.flags[k].severity = severity /\ result.flags[k].category \in category}
AnyCategory == {"missing_element", "zero_qty", "missing_phase"}

\* A complete draft: every required element is found and no line has quantity 0.
Complete(items) ==
    /\ MissingElements(items, "critical") = {}
    /\ MissingElements(items, "warning") = {}
    /\ ZeroQuantityLines(items) = {}

\* The draft without the lines of the k-th required element, the lines whose
\* description matches one of its patterns, and what check returns for it.
Without(items, k) ==
    SelectSeq(items, LAMBDA line :
        ~found(REQUIRED_ELEMENTS[k].patterns, str_lower(DictGet(line, "desc", ""))))
CheckedWithout(k) == check(Without(scope_in.line_items, k), scope_in.job_context)
CriticalElements == {k \in 1..Len(REQUIRED_ELEMENTS) : REQUIRED_ELEMENTS[k].severity = "critical"}

ClaimedScore(zero) ==
    Max(0, 100 - 15 * Cardinality(MissingElements(scope_in.line_items, "critical"))
               - 5 * Cardinality(MissingElements(scope_in.line_items, "warning"))
               - 2 * zero)
FlagsAreNotSuggestions ==
    /\ scope_out.score \in 0..100
    /\ Len(scope_out.flags) =
           Cardinality(MissingElements(scope_in.line_items, "critical"))
           + Cardinality(MissingElements(scope_in.line_items, "warning"))
           + Cardinality(FlagsOf(scope_out, "warning", {"zero_qty"}))
           + Len(scope_out.missing_phases)
    /\ \A k \in 1..Len(scope_out.flags) :
           /\ scope_out.flags[k].category \in AnyCategory
           /\ \A j \in 1..Len(scope_out.suggested_additions) :
                  scope_out.flags[k].message # scope_out.suggested_additions[j].desc

\* C22 as stated: the score is max(0, 100 - 15 * missing critical elements
\* - 5 * missing warning elements - 2 * zero-quantity lines) for every draft;
\* absent phases and suggested additions do not change it, suggested additions
\* are not flags, and the score is within 0..100.
C22_ScoreFormula ==
    ScopeReturned =>
        /\ scope_out.score = ClaimedScore(Cardinality(ZeroQuantityLines(scope_in.line_items)))
        /\ FlagsAreNotSuggestions

\* C22 as amended: the same, the zero-quantity lines counted being those with
\* a description that is not empty.
C22_ScoreFormulaDescribedLines ==
    ScopeReturned =>
        /\ scope_out.score =
               ClaimedScore(Cardinality({i \in ZeroQuantityLines(scope_in.line_items) :
                                            DictGet(scope_in.line_items[i], "desc", "") # ""}))
        /\ Cardinality(FlagsOf(scope_out, "warning", {"zero_qty"})) =
               Cardinality({i \in ZeroQuantityLines(scope_in.line_items) :
                               DictGet(scope_in.line_items[i], "desc", "") # ""})
        /\ FlagsAreNotSuggestions

\* A draft without any required element and with three placeholder lines of
\* quantity 0: the penalties add up to 101 and the score is 0.
C22_Witness ==
    /\ ScopeReturned
    /\ Cardinality(MissingElements(scope_in.line_items, "critical")) = 5
    /\ Cardinality(MissingElements(scope_in.line_items, "warning")) = 4
    /\ Cardinality(ZeroQuantityLines(scope_in.line_items)) = 3
    /\ Len(scope_out.missing_phases) = 2
    /\ scope_out.score = 0

(* ------------------------------------------------------------------ *)
(* Claims about run_pipeline.                                           *)
(* ------------------------------------------------------------------ *)

PipelineStarted == pipeline # NoResult
Called(stage) == \E k \in 1..Len(pipeline.calls) : pipeline.calls[k] = stage

WhisperFailed == pipeline.whisper \in {"ffmpeg_not_found", "ffmpeg_failed", "api_error"}
MergeFailed == pipeline.merge \notin {"", "ok"}

\* C25: a failure of the audio extraction or of the transcription is recorded
\* in whisper_error and the run goes on to Gemini without a transcript; a
\* failure of the Claude merge is recorded in merge_error and the rooms are
\* gemini_fallback of the visual rooms; neither sets fatal_error nor keeps the
\* estimate step from running; gemini-only mode calls neither Whisper nor
\* Claude.
C25_NonEssentialFailuresDoNotStopTheRun ==
    PipelineStarted =>
        /\ WhisperFailed =>
               /\ pipeline.whisper_error # ""
               /\ pipeline.transcript_text = ""
               /\ pipeline.pc = "gemini" => pipeline.fatal_error = ""
               /\ pipeline.pc # "gemini" => Called("analyze_video")
        /\ MergeFailed =>
               /\ pipeline.merge_error # ""
               /\ pipeline.final_rooms_json = gemini_fallback(pipeline.visual_rooms)
               /\ pipeline.pc = "estimate" => pipeline.fatal_error = ""
               /\ pipeline.pc # "estimate" => Called("generate_5phase_estimate")
        /\ pipeline.pc \in {"whisper", "gemini", "merge", "estimate", "returned"}
        /\ (pipeline.pc = "returned" /\ pipeline.visual = "ok") =>
               Called("generate_5phase_estimate")
        /\ pipeline.mode = "gemini-only" =>
               /\ ~Called("extract_audio") /\ ~Called("transcribe_audio")
               /\ ~Called("summarize")

(* ------------------------------------------------------------------ *)
(* Claims about analyze_video.                                          *)
(* ------------------------------------------------------------------ *)

GeminiReturned == gemini # NoResult /\ gemini.pc = "returned"

\* C29: once the video has been uploaded, analyze_video does not return before
\* the uploaded file has been deleted, whatever the exit: a successful
\* analysis, an unparseable reply, a processing timeout, the state FAILED or
\* any other exception. (That the poll of _upload_and_wait ends is PollEnds.)
C29_UploadedFileIsDeleted ==
    (GeminiReturned /\ gemini.uploaded) => gemini.deleted

\* The poll of _upload_and_wait always ends.
PollEnds == (gemini.pc = "poll") ~> (gemini.pc # "poll")

(* ------------------------------------------------------------------ *)
(* Claims about main.                                                   *)
(* ------------------------------------------------------------------ *)

MainEnded == main_out # NoResult
RoomCount(k, field) == GetCount(main_out.rooms[k], field)
RoomSum(field) ==
    SumOver([k \in 1..Len(main_out.rooms) |-> RoomCount(k, field)], Len(main_out.rooms))

\* C23: the TAG and box totals the estimate is built from are the sums of the
\* rooms' override_tags and override_boxes as apply_box_prediction left them,
\* not values of the baseline table.
C23_TotalsAreSumsOfRoomCounts ==
    MainEnded =>
        /\ main_out.walkthrough.total_tags = RoomSum("override_tags")
        /\ main_out.walkthrough.total_boxes = RoomSum("override_boxes")
        /\ "est" \in DOMAIN main_out =>
               /\ main_out.est.tags = RoomSum("override_tags")
               /\ main_out.est.boxes = RoomSum("override_boxes")

\* C26: a run without --vaults completes, its storage months are the vaults
\* derived from the TAG and box totals times the months, and the summary
\* prints the vault count that was used.
C26_VaultsDerivedWhenNotGiven ==
    (MainEnded /\ main_in.vaults = <<>>) =>
        /\ main_out.status = "returned"
        /\ main_out.est.storage_months =
               calculate_storage_vaults(main_out.est.tags, main_out.est.boxes).total
                   * main_in.months
        /\ main_out.printed_vaults =
               calculate_storage_vaults(main_out.est.tags, main_out.est.boxes).total

====
